---- MODULE Spec2Model ----
(***************************************************************************)
(* Weekly portfolio recompute engine of scripts/portfolio_automation.py:   *)
(* PortfolioAutomation.run -> load_master_json ->                          *)
(* generate_master_from_alphavantage (quote fetch chain, recompute,        *)
(* atomic save, archive copy, legacy copy); the rebalancers that edit the   *)
(* same master.json (scripts/automated_rebalance.py,                       *)
(* scripts/execute_rebalance.py); the retry decorators of                  *)
(* azure-functions/MyBlogSubscribers/weekly_job.py and                     *)
(* scripts/upload_newsletter_to_blob.py; and the weekly newsletter job     *)
(* (weekly_job.py, send_weekly_newsletter).                                *)
(*                                                                         *)
(* Units.  A provider close is an integer number of mills (1/1000 USD);    *)
(* a stored price (round(x, 2)) is an integer number of cents; a number    *)
(* of shares (round(x, 2)) is an integer number of hundredths of a share;  *)
(* a value field is an integer number of cents (the recompute stores whole *)
(* dollars, round(x); the rebalancers store round(x, 2)); a percentage or  *)
(* a base-100 figure (round(x, 2)) is an integer number of hundredths.     *)
(* Dates are day numbers; day 1 is a Thursday.  Times are whole seconds.   *)
(***************************************************************************)
EXTENDS Integers, Sequences, FiniteSets, TLC

\* ------------------------------------------------------------------ bounds
MaxDate == 4
MaxRuns == 2

Dates == 1..MaxDate
Weeks == 1..(MaxRuns + 1)

\* Closes a provider may report (mills): 180.000 and 198.000 USD.
Prices == {180000, 198000}

NoDate == 0
\* Python's None; a path that does not exist; a file cut short while written
None == [kind |-> "None"]
Absent == [kind |-> "absent"]
Partial == [kind |-> "partial"]

\* ------------------------------------------------------------------ state
VARIABLES
    master_file,      \* master data/master.json on disk
    temp_file,        \* master data/master.tmp on disk
    archive,          \* master data/archive/master-YYYYMMDD.json, by date
    legacy,           \* Data/W{n}/master.json, by week number
    today,            \* the last day _latest_market_date() returned
    pc,               \* position of the process in run()
    error,            \* the exception that ended the run, if any
    eval_date,        \* self.eval_date (the --eval-date override or NoDate)
    finnhub_key,      \* self.finnhub_key is set
    marketstack_key,  \* self.marketstack_key is set
    week_number,      \* self.week_number
    master_json,      \* self.master_json
    new_date,         \* local new_date
    i,                \* index of the ticker being fetched
    b,                \* index of the benchmark being fetched
    price_data,       \* local price_data: ticker -> quote
    price_sources,    \* local price_sources: ticker -> source
    bench_data,       \* local bench_data: benchmark key -> quote
    bench_sources,    \* local bench_sources: benchmark key -> source
    updated_stocks,   \* local updated_stocks
    updated_master,   \* local updated_master
    price_report,     \* the 'prices' detail of the report step
    calls,            \* provider requests issued by this run, in order
    runs,             \* number of processes started so far
    pre_master,       \* master.json as it was when the run started
    pre_archive,      \* the archive directory as it was when the run started
    clock,            \* time.time()
    last_finnhub_call,\* self.last_finnhub_call
    response,         \* what the provider answered to the latest request
    retry_pc,         \* position in retry_with_backoff's wrapper
    attempt,          \* wrapper: attempt
    delay,            \* wrapper: delay
    last_exception,   \* wrapper: last_exception
    invoked,          \* exceptions func raised in this wrapper call, in order
    sleeps,           \* arguments of time.sleep in this wrapper call, in order
    twin,             \* an earlier run from the files restored since, if any
    rb_pc,            \* position of automated_rebalance.py in PortfolioRebalancer.run()
    dry_run,          \* rebalancer: self.dry_run
    master_data,      \* rebalancer: self.master_data
    decision,         \* Data/W{n}/decision_summary.json, if it exists
    backups,          \* master data/archive/master-before-*rebalance-*.json, in order
    rb_temp,          \* master data/master.json.tmp on disk
    rb_result,        \* what PortfolioRebalancer.run() returned
    rb_pre,           \* master.json as it was when the rebalancer started
    up_pc,            \* position in upload_newsletter_to_blob.py's wrapper
    up_attempt,       \* that wrapper: attempt
    up_delay,         \* that wrapper: delay
    up_last_exception,\* that wrapper: last_exception
    up_invoked,       \* exceptions func raised in that wrapper call, in order
    up_sleeps,        \* arguments of time.sleep in that wrapper call, in order
    job_pc,           \* position in send_weekly_newsletter()
    subscribers,      \* newsletter job: subscribers
    html_body,        \* newsletter job: html_body
    bulk_sends,       \* the calls of send_bulk_email, in order
    job_result        \* what send_weekly_newsletter() returned

vars == <<master_file, temp_file, archive, legacy, today, pc, error, eval_date,
          finnhub_key, marketstack_key, week_number, master_json, new_date, i, b,
          price_data, price_sources, bench_data, bench_sources, updated_stocks,
          updated_master,
          price_report, calls, runs, pre_master, pre_archive,
          clock, last_finnhub_call, response,
          retry_pc, attempt, delay, last_exception, invoked, sleeps, twin,
          rb_pc, dry_run, master_data, decision, backups, rb_temp, rb_result, rb_pre,
          up_pc, up_attempt, up_delay, up_last_exception, up_invoked, up_sleeps,
          job_pc, subscribers, html_body, bulk_sends, job_result>>

disk == <<master_file, temp_file, archive, legacy>>
config == <<eval_date, finnhub_key, marketstack_key, week_number, today>>
fetched == <<price_data, price_sources, bench_data, bench_sources>>
ghost == <<runs, pre_master, pre_archive, twin>>
timing == <<clock, last_finnhub_call>>
retrying == <<retry_pc, attempt, delay, last_exception, invoked, sleeps>>
rebalancing == <<rb_pc, dry_run, master_data, decision, backups, rb_temp, rb_result, rb_pre>>
uploading == <<up_pc, up_attempt, up_delay, up_last_exception, up_invoked, up_sleeps>>
newsletter == <<job_pc, subscribers, html_body, bulk_sends, job_result>>
\* the recompute engine's files, locals and bookkeeping
engine == <<disk, config, fetched, ghost, timing, response, pc, error, master_json,
            new_date, i, b, updated_stocks, updated_master, price_report, calls>>
\* the programs other than the recompute engine
elsewhere == <<retrying, rebalancing, uploading, newsletter>>
\* what a step of the engine that sends no request leaves alone
offline == <<timing, response, elsewhere>>

\* ------------------------------------------------------------------ arithmetic
\* Python round(): nearest, ties to even.  d > 0.
RoundDiv(n, d) ==
    LET q == n \div d
        r == n % d
    IN  IF 2 * r < d THEN q
        ELSE IF 2 * r > d THEN q + 1
        ELSE IF q % 2 = 0 THEN q ELSE q + 1

\* round(shares * close): hundredths of a share times mills -> whole dollars,
\* written in cents
round0(product) == 100 * RoundDiv(product, 100 * 1000)

\* round(close, 2): mills -> cents
Round2(close) == RoundDiv(close, 10)

\* round(100 * n / d, 2) in hundredths, that is 10000 * n / d rounded as
\* RoundDiv rounds, by two steps of long division so that no intermediate
\* product leaves 32 bits.  d > 0.
Hundredths(n, d) ==
    LET r0 == n % d
        q1 == 100 * (n \div d) + (100 * r0) \div d
        r1 == (100 * r0) % d
        q2 == 100 * q1 + (100 * r1) \div d
        r2 == (100 * r1) % d
    IN  IF 2 * r2 < d THEN q2
        ELSE IF 2 * r2 > d THEN q2 + 1
        ELSE IF q2 % 2 = 0 THEN q2 ELSE q2 + 1

PctOneDecimal(cur, ref) == IF ref = 0 THEN 0 ELSE 10 * (Hundredths(cur - ref, ref) \div 10)

\* round(((cur / ref) - 1) * 100, 2) if ref else 0.0; cur and ref in one unit
Pct(cur, ref) == IF ref = 0 THEN 0 ELSE Hundredths(cur - ref, ref)

NormAsChange(cur, ref) == Hundredths(cur - ref, ref)

\* round(100 * cur / ref, 2); cur and ref in one unit
Norm(cur, ref) == Hundredths(cur, ref)

Last(s) == s[Len(s)]

SumValuesOfFirst(s) == IF s = <<>> THEN 0 ELSE s[1].current_value

RECURSIVE SumValues(_)
SumValues(s) == IF s = <<>> THEN 0 ELSE s[1].current_value + SumValues(Tail(s))

\* ------------------------------------------------------------------ the seeded snapshot
InceptionDate == 1

\* n whole shares bought at 150.00
SeedStock(t, n) ==
    [ticker |-> t, shares |-> 100 * n, prices |-> [d \in {InceptionDate} |-> 15000],
     current_value |-> n * 15000, weekly_pct |-> 0, total_pct |-> 0]

SeedSeries ==
    [inception_reference |-> 15000,
     history |-> <<[date |-> InceptionDate, close |-> 15000, weekly_pct |-> 0, total_pct |-> 0]>>]

\* The snapshot of the inception date for the holdings `stocks`
Inception(stocks) ==
    LET value == SumValues(stocks)
    IN  [meta |-> [inception_date |-> InceptionDate, inception_value |-> value,
                   current_date |-> InceptionDate],
         stocks |-> stocks,
         portfolio_totals |-> [current_value |-> value, weekly_pct |-> 0, total_pct |-> 0],
         benchmarks |-> [sp500 |-> SeedSeries, bitcoin |-> SeedSeries],
         portfolio_history |-> <<[date |-> InceptionDate, value |-> value,
                                  weekly_pct |-> 0, total_pct |-> 0]>>,
         normalized_chart |-> <<[date |-> InceptionDate, portfolio_value |-> value,
                                 genai_norm |-> 10000, spx_close |-> 15000,
                                 btc_close |-> 15000, spx_norm |-> 10000,
                                 btc_norm |-> 10000]>>]

SeedMaster == Inception(<<SeedStock("T1", 10), SeedStock("T2", 4)>>)

\* bench_config.keys(), in the document's order
BenchKeys == <<"sp500", "bitcoin">>

IsDoc(f) == "meta" \in DOMAIN f
IsQuote(q) == "close" \in DOMAIN q

\* A dict: a function whose domain is the set of keys present
EmptyMap == [k \in {} |-> None]
Put(m, k, v) == [x \in (DOMAIN m) \cup {k} |-> IF x = k THEN v ELSE m[x]]

\* ------------------------------------------------------------------ providers
\* What a request to a provider's endpoint may end in: a usable price; a body
\* with nothing usable (rate-limit note, no data, unknown symbol); or an
\* exception of session.get / raise_for_status / json() (timeout, connection
\* error, 5xx or 429 after the session's retries, malformed body).
Responses ==
    {[status |-> "unavailable"], [status |-> "error"]}
        \cup {[status |-> "ok", price |-> p] : p \in Prices}

\* An exception that leaves the adapter
Raised == [kind |-> "raised"]

\* The body carries the quote object the adapter looks for ('Global Quote',
\* 'Realtime Currency Exchange Rate', data[0], the Finnhub object), with its
\* price field ("ok") or without it ("no price")
HasBody(resp) == resp.status \in {"ok", "no price"}

\* float(quote.get(<price field>, 0))
price_field(resp) == IF resp.status = "ok" THEN resp.price ELSE 0

fetch_alphavantage_quote(resp) ==
    IF HasBody(resp) THEN [close |-> price_field(resp), source |-> "Alpha Vantage"] ELSE None

fetch_alphavantage_crypto(resp) ==
    IF HasBody(resp) THEN [close |-> price_field(resp), source |-> "Alpha Vantage (Crypto)"]
    ELSE None

fetch_marketstack_quote(resp) ==
    IF HasBody(resp) THEN [close |-> price_field(resp), source |-> "Marketstack"] ELSE None

\* 'c' in data and data.get('c') not in (None, 0)
finnhub_usable(resp) == resp.status = "ok" /\ resp.price # 0

fetch_finnhub_quote_reraises(resp) ==
    IF finnhub_usable(resp) THEN [close |-> resp.price, source |-> "Finnhub"]
    ELSE IF resp.status = "error" THEN Raised ELSE None

fetch_finnhub_quote(resp) ==
    IF finnhub_usable(resp) THEN [close |-> resp.price, source |-> "Finnhub"] ELSE None

fetch_finnhub_crypto(resp) ==
    IF finnhub_usable(resp) THEN [close |-> resp.price, source |-> "Finnhub (Crypto)"] ELSE None

\* One request to a provider: how long the caller slept right before it, when
\* it was sent, and what its adapter returned
Request(provider, symbol, quote, waited, at) ==
    [provider |-> provider, symbol |-> symbol, quote |-> quote, waited |-> waited,
     at |-> at]

\* ------------------------------------------------------------------ time
\* Seconds a request may take
Latencies == {0, 1}
\* Requests answered at once
Instant == {0}

\* self.finnhub_min_interval, and self.last_finnhub_call as __init__ sets it
finnhub_min_interval == 12
NeverCalled == 0

\* time.time() when the process starts: later than the epoch by more than
\* any interval the code compares with
StartTime == 4 * finnhub_min_interval

\* time.sleep(5) before the second Alpha Vantage call of a holding
RetryPause == 5
\* time.sleep(12) and time.sleep(2) after a quote
AlphaVantagePause == 12
MarketstackPause == 2

finnhub_wait_never(now, last) == 0

\* The rate limit of the Finnhub adapters: the time to sleep before the
\* request when called at `now`
finnhub_wait(now, last) ==
    LET elapsed == now - last
    IN  IF elapsed < finnhub_min_interval THEN finnhub_min_interval - elapsed ELSE 0

\* ------------------------------------------------------------------ dates
\* datetime.weekday(): Monday is 0; day 1 is a Thursday
Weekday(d) == (d + 2) % 7

latest_market_date(d) ==
    IF Weekday(d) = 5 THEN d - 1
    ELSE IF Weekday(d) = 6 THEN d - 2
    ELSE d

\* ------------------------------------------------------------------ positions in run()
Running == {"check", "av1", "av2", "finnhub", "marketstack", "build", "bench",
            "bench_finnhub", "compute", "open_temp", "dump_temp", "replace",
            "archive", "legacy", "commit", "returned"}
Ended == {"idle", "done", "failed", "killed"}

\* ------------------------------------------------------------------ run(): start
\* main() builds a PortfolioAutomation (detect_next_week reads master.json, the
\* --eval-date override is kept) and run() loads master.json.
StartRun(override) ==
    /\ pc \in Ended
    /\ runs' = runs + 1
    /\ eval_date' = override
    /\ pre_master' = master_file
    /\ pre_archive' = archive
    /\ new_date' = NoDate
    /\ i' = 0
    /\ b' = 0
    /\ price_data' = EmptyMap
    /\ price_sources' = EmptyMap
    /\ bench_data' = EmptyMap
    /\ bench_sources' = EmptyMap
    /\ updated_stocks' = <<>>
    /\ updated_master' = None
    /\ price_report' = None
    /\ calls' = <<>>
    /\ IF IsDoc(master_file)
       THEN /\ week_number' = Len(master_file.portfolio_history)
            /\ master_json' = master_file
            /\ pc' = "check"
            /\ error' = "none"
       ELSE /\ week_number' = 0
            /\ master_json' = None
            /\ pc' = "failed"
            /\ error' = "master data"
    /\ clock' = StartTime
    /\ last_finnhub_call' = NeverCalled
    /\ response' = None
    /\ UNCHANGED <<disk, finnhub_key, marketstack_key, today, elsewhere, twin>>

\* generate_master_from_alphavantage, up to the duplicate-period check
IsDuplicateNever(date, prev_date) == FALSE

\* "Avoid duplicate regeneration" (line 697)
IsDuplicate(date, prev_date) == date = prev_date

\* `day` is the clock's day when _latest_market_date() reads it; the clock is
\* read only when there is no override, and never runs backwards.
GenerateStart(day) ==
    /\ pc = "check"
    /\ latest_market_date(day) >= today
    /\ today' = IF eval_date # NoDate THEN today ELSE latest_market_date(day)
    /\ LET prev_date == master_json.meta.current_date
           date == IF eval_date # NoDate THEN eval_date ELSE latest_market_date(day)
       IN  /\ new_date' = date
           /\ IF IsDuplicate(date, prev_date)
              THEN /\ pc' = "failed"
                   /\ error' = "duplicate"
                   /\ i' = i
              ELSE /\ pc' = IF Len(master_json.stocks) > 0 THEN "av1" ELSE "build"
                   /\ error' = error
                   /\ i' = 1
    /\ UNCHANGED <<offline, disk, eval_date, finnhub_key, marketstack_key, week_number, fetched,
                   ghost, master_json, b, updated_stocks, updated_master,
                   price_report, calls>>

\* ------------------------------------------------------------------ holdings: the quote chain
Tickers == [n \in 1..Len(master_json.stocks) |-> master_json.stocks[n].ticker]

ChainNextFallsThrough(stage, quote) ==
    IF stage = "finnhub" /\ marketstack_key THEN "marketstack"
    ELSE IF IsQuote(quote) THEN "store"
    ELSE CASE stage = "av1" -> "av2"
           [] stage = "av2" -> IF finnhub_key THEN "finnhub"
                               ELSE IF marketstack_key THEN "marketstack" ELSE "raise"
           [] OTHER -> "raise"

\* Where the chain goes after a provider answered `quote` at `stage`
\* (lines 713-744): the quote is kept, the next provider is tried, or the run
\* is given up.  Nothing in the loop catches an exception of an adapter.
ChainNext(stage, quote) ==
    IF quote = Raised THEN "propagate"
    ELSE IF IsQuote(quote) THEN "store"
    ELSE CASE stage = "av1" -> "av2"
           [] stage = "av2" -> IF finnhub_key THEN "finnhub"
                               ELSE IF marketstack_key THEN "marketstack" ELSE "raise"
           [] stage = "finnhub" -> IF marketstack_key THEN "marketstack" ELSE "raise"
           [] OTHER -> "raise"

\* "Rate limiting (skip on last item)", lines 746-751
PauseAfter(stage, quote) ==
    IF i < Len(Tickers)
    THEN IF stage \in {"av1", "av2"} THEN AlphaVantagePause
         ELSE IF quote.source = "Marketstack" THEN MarketstackPause ELSE 0
    ELSE 0

\* One request of the chain: sent `before` seconds from now, answered `took`
\* seconds later with `resp`, which the adapter turns into `quote`.
ChainStep(stage, provider, resp, quote, before, took) ==
    LET ticker == Tickers[i]
        next == ChainNext(stage, quote)
        at == clock + before
    IN  /\ calls' = Append(calls, Request(provider, ticker, quote, before, at))
        /\ response' = resp
        /\ last_finnhub_call' = IF provider = "Finnhub" THEN at ELSE last_finnhub_call
        /\ IF next = "store"
           THEN /\ price_data' = Put(price_data, ticker, quote)
                /\ price_sources' = Put(price_sources, ticker, quote.source)
                /\ i' = i + 1
                /\ pc' = IF i < Len(Tickers) THEN "av1" ELSE "build"
                /\ error' = error
                /\ clock' = at + took + PauseAfter(stage, quote)
           ELSE /\ UNCHANGED <<price_data, price_sources, i>>
                /\ pc' = IF next \in {"raise", "propagate"} THEN "failed" ELSE next
                /\ error' = IF next = "raise" THEN "no price"
                            ELSE IF next = "propagate" THEN "transport" ELSE error
                /\ clock' = at + took
        /\ UNCHANGED <<disk, config, ghost, bench_data, bench_sources, master_json,
                       new_date, b, updated_stocks, updated_master, price_report,
                       elsewhere>>

FetchAlphaVantage(resp, took) ==
    /\ pc = "av1"
    /\ ChainStep("av1", "Alpha Vantage", resp, fetch_alphavantage_quote(resp), 0, took)

\* "Retry with delay": the same request again, 5 seconds later
RetryAlphaVantage(resp, took) ==
    /\ pc = "av2"
    /\ ChainStep("av2", "Alpha Vantage", resp, fetch_alphavantage_quote(resp),
                 RetryPause, took)

FetchFinnhub(resp, took) ==
    /\ pc = "finnhub"
    /\ ChainStep("finnhub", "Finnhub", resp, fetch_finnhub_quote(resp),
                 finnhub_wait(clock, last_finnhub_call), took)

FetchMarketstack(resp, took) ==
    /\ pc = "marketstack"
    /\ ChainStep("marketstack", "Marketstack", resp, fetch_marketstack_quote(resp), 0, took)

\* ------------------------------------------------------------------ holdings: recompute
HasPrices(stock, inception_date, prev_date) ==
    {inception_date, prev_date} \subseteq DOMAIN stock.prices

new_prices(prices, date, current_price) == Put(prices, date, Round2(current_price))

UpdatedStock(stock, current_price, inception_date, prev_date, date) ==
    LET inception_price == stock.prices[inception_date]
        prior_price == stock.prices[prev_date]
    IN  [ticker |-> stock.ticker,
         shares |-> stock.shares,
         prices |-> new_prices(stock.prices, date, current_price),
         current_value |-> round0(stock.shares * current_price),
         weekly_pct |-> Pct(current_price, 10 * prior_price),
         total_pct |-> Pct(current_price, 10 * inception_price)]

BuildStocks ==
    /\ pc = "build"
    /\ LET stocks == master_json.stocks
           inception_date == master_json.meta.inception_date
           prev_date == master_json.meta.current_date
       IN  IF \A n \in 1..Len(stocks) : HasPrices(stocks[n], inception_date, prev_date)
           THEN /\ updated_stocks' =
                       [n \in 1..Len(stocks) |->
                           UpdatedStock(stocks[n], price_data[stocks[n].ticker].close,
                                        inception_date, prev_date, new_date)]
                /\ pc' = "bench"
                /\ b' = 1
                /\ error' = error
           ELSE /\ pc' = "failed"
                /\ error' = "KeyError"
                /\ UNCHANGED <<updated_stocks, b>>
    /\ UNCHANGED <<offline, disk, config, fetched, ghost, master_json, new_date, i,
                   updated_master, price_report, calls>>

\* ------------------------------------------------------------------ benchmarks: quotes
bench_symbol(bench_key) ==
    IF bench_key = "sp500" THEN "^SPX" ELSE IF bench_key = "bitcoin" THEN "BTC" ELSE bench_key

StoreBench(quote) ==
    /\ bench_data' = Put(bench_data, BenchKeys[b], quote)
    /\ bench_sources' = Put(bench_sources, BenchKeys[b], quote.source)
    /\ b' = b + 1
    /\ pc' = IF b < Len(BenchKeys) THEN "bench" ELSE "compute"
    /\ error' = error

SkipBench(why) ==
    /\ pc' = IF b < Len(BenchKeys) THEN "bench" ELSE "compute"
    /\ b' = b + 1
    /\ UNCHANGED <<bench_data, bench_sources, error>>

RaiseBench(why) ==
    /\ pc' = "failed"
    /\ error' = why
    /\ UNCHANGED <<bench_data, bench_sources, b>>

\* "Rate limiting based on source", lines 843-847
BenchPause(quote) ==
    IF quote.source = "Marketstack" THEN MarketstackPause ELSE AlphaVantagePause

\* What follows a benchmark request: the quote is stored and the pause slept,
\* or the run is given up
BenchOutcome(quote, at, took) ==
    IF IsQuote(quote)
    THEN /\ StoreBench(quote)
         /\ clock' = at + took + BenchPause(quote)
    ELSE /\ RaiseBench(IF quote = Raised THEN "transport" ELSE "no price")
         /\ clock' = at + took

\* bench_key == 'sp500': Marketstack only, and only with its key
FetchIndex(resp, took) ==
    /\ pc = "bench"
    /\ BenchKeys[b] = "sp500"
    /\ IF ~marketstack_key
       THEN /\ RaiseBench("config")
            /\ UNCHANGED <<calls, clock, response>>
       ELSE LET quote == fetch_marketstack_quote(resp)
            IN  /\ calls' = Append(calls, Request("Marketstack", bench_symbol("sp500"),
                                                  quote, 0, clock))
                /\ response' = resp
                /\ BenchOutcome(quote, clock, took)
    /\ UNCHANGED <<disk, config, ghost, price_data, price_sources, master_json, new_date,
                   i, updated_stocks, updated_master, price_report, last_finnhub_call,
                   elsewhere>>

\* bench_type == 'crypto': Alpha Vantage first
FetchCrypto(resp, took) ==
    /\ pc = "bench"
    /\ BenchKeys[b] = "bitcoin"
    /\ LET quote == fetch_alphavantage_crypto(resp)
       IN  /\ calls' = Append(calls, Request("Alpha Vantage", bench_symbol("bitcoin"),
                                             quote, 0, clock))
           /\ response' = resp
           /\ IF ~IsQuote(quote) /\ quote # Raised /\ finnhub_key
              THEN /\ pc' = "bench_finnhub"
                   /\ clock' = clock + took
                   /\ UNCHANGED <<bench_data, bench_sources, b, error>>
              ELSE BenchOutcome(quote, clock, took)
    /\ UNCHANGED <<disk, config, ghost, price_data, price_sources, master_json, new_date,
                   i, updated_stocks, updated_master, price_report, last_finnhub_call,
                   elsewhere>>

\* bench_type == 'crypto': Finnhub fallback
FetchCryptoFinnhub(resp, took) ==
    /\ pc = "bench_finnhub"
    /\ LET quote == fetch_finnhub_crypto(resp)
           wait_time == finnhub_wait(clock, last_finnhub_call)
           at == clock + wait_time
       IN  /\ calls' = Append(calls, Request("Finnhub", bench_symbol("bitcoin"), quote,
                                             wait_time, at))
           /\ response' = resp
           /\ last_finnhub_call' = at
           /\ BenchOutcome(quote, at, took)
    /\ UNCHANGED <<disk, config, ghost, price_data, price_sources, master_json, new_date,
                   i, updated_stocks, updated_master, price_report, elsewhere>>

\* ------------------------------------------------------------------ recompute
UpdatedSeriesRebases(series, current_close, date) ==
    [inception_reference |-> Round2(current_close),
     history |-> Append(series.history,
                        [date |-> date,
                         close |-> Round2(current_close),
                         weekly_pct |-> Pct(current_close, 10 * Last(series.history).close),
                         total_pct |-> Pct(current_close, 10 * series.inception_reference)])]

UpdatedSeriesRewritesLast(series, current_close, date) ==
    [inception_reference |-> series.inception_reference,
     history |-> [series.history EXCEPT ![Len(series.history)] =
                     [date |-> date,
                      close |-> Round2(current_close),
                      weekly_pct |-> Pct(current_close, 10 * @.close),
                      total_pct |-> Pct(current_close, 10 * series.inception_reference)]]]

UpdatedSeries(series, current_close, date) ==
    LET prev_close == Last(series.history).close
        new_history_entry ==
            [date |-> date,
             close |-> Round2(current_close),
             weekly_pct |-> Pct(current_close, 10 * prev_close),
             total_pct |-> Pct(current_close, 10 * series.inception_reference)]
    IN  [inception_reference |-> series.inception_reference,
         history |-> Append(series.history, new_history_entry)]

UpdatedMaster(prev, stocks, quotes, date) ==
    LET inception_value == prev.meta.inception_value
        prev_portfolio_value == Last(prev.portfolio_history).value
        portfolio_current_value == SumValues(stocks)
        portfolio_weekly_pct == Pct(portfolio_current_value, prev_portfolio_value)
        portfolio_total_pct == Pct(portfolio_current_value, inception_value)
        updated_benchmarks ==
            [k \in DOMAIN prev.benchmarks |->
                UpdatedSeries(prev.benchmarks[k], quotes[k].close, date)]
        spx_close == Last(updated_benchmarks.sp500.history).close
        btc_close == Last(updated_benchmarks.bitcoin.history).close
        normalized_entry ==
            [date |-> date,
             portfolio_value |-> portfolio_current_value,
             genai_norm |-> Norm(portfolio_current_value, inception_value),
             spx_close |-> spx_close,
             btc_close |-> btc_close,
             spx_norm |-> Norm(spx_close, prev.benchmarks.sp500.inception_reference),
             btc_norm |-> Norm(btc_close, prev.benchmarks.bitcoin.inception_reference)]
    IN  [meta |-> [inception_date |-> prev.meta.inception_date,
                   inception_value |-> inception_value,
                   current_date |-> date],
         stocks |-> stocks,
         portfolio_totals |-> [current_value |-> portfolio_current_value,
                               weekly_pct |-> portfolio_weekly_pct,
                               total_pct |-> portfolio_total_pct],
         benchmarks |-> updated_benchmarks,
         portfolio_history |->
             Append(prev.portfolio_history,
                    [date |-> date, value |-> portfolio_current_value,
                     weekly_pct |-> portfolio_weekly_pct,
                     total_pct |-> portfolio_total_pct]),
         normalized_chart |-> Append(prev.normalized_chart, normalized_entry)]

ComputeInPlace ==
    /\ pc = "compute"
    /\ updated_master' = UpdatedMaster(master_json, updated_stocks, bench_data, new_date)
    /\ master_json' = UpdatedMaster(master_json, updated_stocks, bench_data, new_date)
    /\ pc' = "open_temp"
    /\ UNCHANGED <<offline, disk, config, fetched, ghost, error, new_date, i, b,
                   updated_stocks, price_report, calls>>

ComputeStampsToday ==
    /\ pc = "compute"
    /\ updated_master' = UpdatedMaster(master_json, updated_stocks, bench_data, today)
    /\ pc' = "open_temp"
    /\ UNCHANGED <<offline, disk, config, fetched, ghost, error, master_json, new_date, i, b,
                   updated_stocks, price_report, calls>>

Compute ==
    /\ pc = "compute"
    /\ updated_master' = UpdatedMaster(master_json, updated_stocks, bench_data, new_date)
    /\ pc' = "open_temp"
    /\ UNCHANGED <<offline, disk, config, fetched, ghost, error, master_json, new_date, i, b,
                   updated_stocks, price_report, calls>>

\* ------------------------------------------------------------------ save (lines 914-925)
\* except Exception: the temporary file is removed if it exists, and the
\* exception is raised again
SaveExceptKeepsTemp(step) ==
    /\ temp_file' = temp_file
    /\ pc' = "failed"
    /\ error' = step
    /\ UNCHANGED <<master_file, archive, legacy>>

SaveExcept(step) ==
    /\ temp_file' = Absent
    /\ pc' = "failed"
    /\ error' = step
    /\ UNCHANGED <<master_file, archive, legacy>>

PersistErrors == {"persist: open", "persist: dump", "persist: replace"}

OpenMasterInPlace(ok) ==
    /\ pc = "open_temp"
    /\ master_file' = IF ok THEN Partial ELSE master_file
    /\ pc' = IF ok THEN "dump_temp" ELSE "failed"
    /\ error' = IF ok THEN error ELSE "persist: open"
    /\ UNCHANGED <<offline, temp_file, archive, legacy, config, fetched, ghost, master_json, new_date,
                   i, b, updated_stocks, updated_master, price_report, calls>>

\* open(temp_path, 'w'): creates or truncates the temporary file
OpenTemp(ok) ==
    /\ pc = "open_temp"
    /\ IF ok
       THEN /\ temp_file' = Partial
            /\ pc' = "dump_temp"
            /\ error' = error
            /\ UNCHANGED <<master_file, archive, legacy>>
       ELSE SaveExcept("persist: open")
    /\ UNCHANGED <<offline, config, fetched, ghost, master_json, new_date, i, b, updated_stocks,
                   updated_master, price_report, calls>>

\* json.dump(updated_master, f) and the close of the file
DumpTemp(ok) ==
    /\ pc = "dump_temp"
    /\ IF ok
       THEN /\ temp_file' = updated_master
            /\ pc' = "replace"
            /\ error' = error
            /\ UNCHANGED <<master_file, archive, legacy>>
       ELSE SaveExcept("persist: dump")
    /\ UNCHANGED <<offline, config, fetched, ghost, master_json, new_date, i, b, updated_stocks,
                   updated_master, price_report, calls>>

\* temp_path.replace(master_path): one rename
ReplaceMaster(ok) ==
    /\ pc = "replace"
    /\ IF ok
       THEN /\ master_file' = temp_file
            /\ temp_file' = Absent
            /\ pc' = "archive"
            /\ error' = error
            /\ UNCHANGED <<archive, legacy>>
       ELSE SaveExcept("persist: replace")
    /\ UNCHANGED <<offline, config, fetched, ghost, master_json, new_date, i, b, updated_stocks,
                   updated_master, price_report, calls>>

\* ------------------------------------------------------------------ copies (lines 927-938)
WriteOutcomes == {"ok", "open fails", "dump fails"}

\* What a plain open(path, 'w') + json.dump leaves at the path
Written(before, doc, how) ==
    IF how = "ok" THEN doc
    ELSE IF how = "dump fails" THEN Partial
    ELSE before

\* Where the run is after the archive copy was attempted
AfterArchive(how) == IF how = "ok" THEN "legacy" ELSE "failed"

\* Where the run is after the legacy copy was attempted
AfterLegacy(how) == IF how = "ok" THEN "commit" ELSE "failed"

WriteArchive(how) ==
    /\ pc = "archive"
    /\ archive' = [archive EXCEPT ![new_date] = Written(@, updated_master, how)]
    /\ pc' = AfterArchive(how)
    /\ error' = IF AfterArchive(how) = "failed" THEN "archive" ELSE error
    /\ UNCHANGED <<offline, master_file, temp_file, legacy, config, fetched, ghost, master_json,
                   new_date, i, b, updated_stocks, updated_master, price_report, calls>>

WriteLegacy(how) ==
    /\ pc = "legacy"
    /\ legacy' = [legacy EXCEPT ![week_number] = Written(@, updated_master, how)]
    /\ pc' = AfterLegacy(how)
    /\ error' = IF AfterLegacy(how) = "failed" THEN "legacy" ELSE error
    /\ UNCHANGED <<offline, master_file, temp_file, archive, config, fetched, ghost, master_json,
                   new_date, i, b, updated_stocks, updated_master, price_report, calls>>

\* ------------------------------------------------------------------ return (lines 940-972)
PriceReport ==
    [t \in DOMAIN price_data |->
        [price |-> Round2(price_data[t].close), source |-> price_sources[t]]]

Commit ==
    /\ pc = "commit"
    /\ master_json' = updated_master
    /\ price_report' = PriceReport
    /\ pc' = "returned"
    /\ UNCHANGED <<offline, disk, config, fetched, ghost, error, new_date, i, b, updated_stocks,
                   updated_master, calls>>

\* The rest of run(): validation, visuals, narrative, index pages.  None of it
\* writes master.json; it ends in success or in an exception.
Pipeline(ok) ==
    /\ pc = "returned"
    /\ pc' = IF ok THEN "done" ELSE "failed"
    /\ error' = IF ok THEN error ELSE "pipeline"
    /\ UNCHANGED <<offline, disk, config, fetched, ghost, master_json, new_date, i, b,
                   updated_stocks, updated_master, price_report, calls>>

\* The process is killed (crash, operator interrupt): it takes no further
\* step, and the files stay as they are.
Kill ==
    /\ pc \in Running
    /\ pc' = "killed"
    /\ error' = "killed"
    /\ UNCHANGED <<offline, disk, config, fetched, ghost, master_json, new_date, i, b,
                   updated_stocks, updated_master, price_report, calls>>

\* ------------------------------------------------------------------ retry_with_backoff
\* weekly_job.py: @retry_with_backoff(max_retries=3, initial_delay=1.0,
\* backoff_factor=2.0)
max_retries == 3
initial_delay == 1
backoff_factor == 2

\* Status codes an HTTP error may carry
HttpStatuses == {400, 404, 429, 500, 503}

\* What func may raise: the classes the wrapper names, one more
\* RequestException without a response, and an exception of another kind.
\* ConnectionError is Python's built-in one; requests' is imported as
\* RequestsConnectionError.
Exceptions ==
    {[class |-> c, status |-> 0] :
        c \in {"Timeout", "RequestsConnectionError", "ServiceRequestError",
               "ConnectionError", "RequestException", "ValueError"}}
    \cup {[class |-> c, status |-> st] :
            c \in {"HTTPError", "HttpResponseError"}, st \in HttpStatuses}

\* func returned a value
Returned == [class |-> "return", status |-> 0]

\* except (RequestException, ServiceRequestError, HttpResponseError,
\*         ConnectionError): Timeout, requests' ConnectionError and HTTPError
\* are RequestExceptions
Caught(e) ==
    e.class \in {"Timeout", "RequestsConnectionError", "RequestException", "HTTPError",
                 "ServiceRequestError", "HttpResponseError", "ConnectionError"}

\* lines 56-65
is_retryable(e) ==
    IF e.class \in {"Timeout", "RequestsConnectionError", "ServiceRequestError"} THEN TRUE
    ELSE IF e.class \in {"RequestException", "HTTPError", "HttpResponseError"}
         THEN e.status >= 500 \/ e.status = 429
         ELSE FALSE

next_delay_constant(d) == d

\* delay *= backoff_factor
next_delay(d) == d * backoff_factor

\* if attempt < max_retries
attempts_remain(n) == n < max_retries

\* The wrapper is entered: delay = initial_delay, last_exception = None
CallWrapper ==
    /\ retry_pc \in {"idle", "returned", "raised"}
    /\ retry_pc' = "try"
    /\ attempt' = 0
    /\ delay' = initial_delay
    /\ last_exception' = None
    /\ invoked' = <<>>
    /\ sleeps' = <<>>

\* One pass of `for attempt in range(max_retries + 1)`: func is called and
\* returns or raises `outcome`; the wrapper returns, sleeps and goes on, or
\* raises.
Invoke(outcome) ==
    /\ retry_pc = "try"
    /\ attempt <= max_retries
    /\ invoked' = Append(invoked, outcome)
    /\ IF outcome = Returned
       THEN /\ retry_pc' = "returned"
            /\ UNCHANGED <<attempt, delay, last_exception, sleeps>>
       ELSE IF Caught(outcome) /\ attempts_remain(attempt) /\ is_retryable(outcome)
            THEN /\ sleeps' = Append(sleeps, delay)
                 /\ delay' = next_delay(delay)
                 /\ attempt' = attempt + 1
                 /\ last_exception' = outcome
                 /\ retry_pc' = "try"
            ELSE /\ retry_pc' = "raised"
                 /\ last_exception' = outcome
                 /\ UNCHANGED <<attempt, delay, sleeps>>

\* ------------------------------------------------------------------ upload_newsletter_to_blob.py
\* retry_with_backoff of scripts/upload_newsletter_to_blob.py (lines 27-72),
\* with the parameters of weekly_job.py's
\* except (ValueError, FileNotFoundError, KeyError): raise
is_validation_error(e) == e.class \in {"ValueError", "FileNotFoundError", "KeyError"}

\* if attempt < max_retries - 1
upload_attempts_remain(n) == n < max_retries - 1

UploadCall ==
    /\ up_pc \in {"idle", "returned", "raised"}
    /\ up_pc' = "try"
    /\ up_attempt' = 0
    /\ up_delay' = initial_delay
    /\ up_last_exception' = None
    /\ up_invoked' = <<>>
    /\ up_sleeps' = <<>>

\* One pass of `for attempt in range(max_retries)`; after the last pass the
\* loop ends and last_exception is raised
UploadInvoke(outcome) ==
    /\ up_pc = "try"
    /\ up_attempt < max_retries
    /\ up_invoked' = Append(up_invoked, outcome)
    /\ IF outcome = Returned
       THEN /\ up_pc' = "returned"
            /\ UNCHANGED <<up_attempt, up_delay, up_last_exception, up_sleeps>>
       ELSE IF ~is_validation_error(outcome) /\ upload_attempts_remain(up_attempt)
            THEN /\ up_sleeps' = Append(up_sleeps, up_delay)
                 /\ up_delay' = next_delay(up_delay)
                 /\ up_attempt' = up_attempt + 1
                 /\ up_last_exception' = outcome
                 /\ up_pc' = "try"
            ELSE /\ up_pc' = "raised"
                 /\ up_last_exception' = outcome
                 /\ UNCHANGED <<up_attempt, up_delay, up_sleeps>>

\* The two decorators around one function: each invocation of the function
\* ends the same way for both, as long as both are still calling it
CallBoth ==
    /\ CallWrapper
    /\ UploadCall

InvokeBoth(outcome) ==
    /\ retry_pc = "try" \/ up_pc = "try"
    /\ IF retry_pc = "try" THEN Invoke(outcome) ELSE UNCHANGED retrying
    /\ IF up_pc = "try" THEN UploadInvoke(outcome) ELSE UNCHANGED uploading

\* ------------------------------------------------------------------ weekly_job.py: the newsletter job
\* A newsletter file is a sequence of pieces of text: a blank, an opening
\* html tag in upper case, an opening body tag, other text
Pieces == {" ", "<HTML", "<body", "text"}
MaxPieces == 3
Files == UNION {[1..n -> Pieces] : n \in 0..MaxPieces}

\* str.lower()
lower(piece) == IF piece = "<HTML" THEN "<html" ELSE piece

\* not html_body or not html_body.strip()
is_blank(html) == \A n \in 1..Len(html) : html[n] = " "

\* '<html' in html_lower and '<body' in html_lower
has_structure(html) ==
    /\ \E n \in 1..Len(html) : lower(html[n]) = "<html"
    /\ \E n \in 1..Len(html) : lower(html[n]) = "<body"

html_not_checked(html) == TRUE

\* lines 268-292
html_is_valid(html) == ~is_blank(html) /\ has_structure(html)

\* The except clauses of send_weekly_newsletter (lines 372-450): the result
\* returned for an exception
error_result(exception) ==
    [status |-> "error",
     error_type |-> CASE exception = "FileNotFoundError" -> "missing_newsletter"
                      [] exception = "ValueError" -> "invalid_newsletter"
                      [] exception = "IOError" -> "file_access_error"
                      [] exception = "SubscriptionError" -> "subscription_error"
                      [] exception = "MailerError" -> "mailer_error"
                      [] OTHER -> "unexpected_error",
     total |-> 0, sent |-> 0, failed |-> 0]

JobReturns(result) ==
    /\ job_pc' = "returned"
    /\ job_result' = result

beside_job == <<engine, retrying, rebalancing, uploading>>

\* The timer fires: send_weekly_newsletter()
TriggerJob ==
    /\ job_pc \in {"idle", "returned"}
    /\ job_pc' = "subscribers"
    /\ subscribers' = <<>>
    /\ html_body' = None
    /\ bulk_sends' = <<>>
    /\ job_result' = None
    /\ UNCHANGED beside_job

\* get_active_subscribers(): a list, or an exception
GetSubscribers(list, exception) ==
    /\ job_pc = "subscribers"
    /\ IF exception # "none"
       THEN /\ JobReturns(error_result(exception))
            /\ UNCHANGED subscribers
       ELSE IF list = <<>>
            THEN /\ JobReturns([status |-> "completed", total |-> 0, sent |-> 0, failed |-> 0])
                 /\ UNCHANGED subscribers
            ELSE /\ subscribers' = list
                 /\ job_pc' = "content"
                 /\ UNCHANGED job_result
    /\ UNCHANGED <<html_body, bulk_sends, beside_job>>

\* get_weekly_email_content() up to the download (lines 194-266): the latest
\* week is not found, the connection string is not set, the blob does not
\* exist (FileNotFoundError), the download fails for good (IOError), the
\* bytes are not UTF-8 (ValueError), or the file is read
Download(file, exception) ==
    /\ job_pc = "content"
    /\ IF exception # "none"
       THEN /\ JobReturns(error_result(exception))
            /\ UNCHANGED html_body
       ELSE /\ html_body' = file
            /\ job_pc' = "validate"
            /\ UNCHANGED job_result
    /\ UNCHANGED <<subscribers, bulk_sends, beside_job>>

\* "Validate HTML content", "Basic HTML structure validation"
ValidateHtml ==
    /\ job_pc = "validate"
    /\ IF html_is_valid(html_body)
       THEN /\ job_pc' = "send"
            /\ UNCHANGED job_result
       ELSE JobReturns(error_result("ValueError"))
    /\ UNCHANGED <<subscribers, html_body, bulk_sends, beside_job>>

\* send_bulk_email(recipients=subscribers, ...): it reports how many of the
\* messages were sent, or raises
SendBulk(sent, exception) ==
    /\ job_pc = "send"
    /\ bulk_sends' = Append(bulk_sends, [recipients |-> subscribers, html_body |-> html_body])
    /\ IF exception # "none"
       THEN JobReturns(error_result(exception))
       ELSE JobReturns([status |-> "completed", total |-> Len(subscribers),
                        sent |-> sent, failed |-> Len(subscribers) - sent])
    /\ UNCHANGED <<subscribers, html_body, beside_job>>

\* ------------------------------------------------------------------ automated_rebalance.py
\* "Portfolio constraints" (lines 44-48); the cap in percent, the minimum in
\* dollars
MIN_POSITIONS == 6
MAX_POSITIONS == 10
MAX_POSITION_PCT == 20
MIN_POSITION_VALUE == 500

\* `if not price`: fetch_current_price returned None
NoPrice == 0

\* round(value / price, 2): cents by cents -> hundredths of a share
shares_for(value, price) == RoundDiv(100 * value, price)

\* round(shares * price, 2): hundredths of a share by cents -> cents
position_value(shares, price) == RoundDiv(shares * price, 100)

Held(ticker, stocks) == \E n \in 1..Len(stocks) : stocks[n].ticker = ticker

\* next((s for s in stocks if s["ticker"] == ticker), None)
IndexOf(ticker, stocks) ==
    CHOOSE n \in 1..Len(stocks) :
        /\ stocks[n].ticker = ticker
        /\ \A k \in 1..(n - 1) : stocks[k].ticker # ticker

\* "price" in trade and trade["price"] > 0
HasOwnPrice(trade) == "price" \in DOMAIN trade /\ trade.price > 0

\* The new position of a BUY, of an entry of execute_rebalance.py
new_stock(ticker, shares, price, current_date) ==
    [ticker |-> ticker,
     shares |-> shares,
     prices |-> [d \in {current_date} |-> price],
     current_value |-> position_value(shares, price),
     weekly_pct |-> 0,
     total_pct |-> 0]

execute_trade_exit(trade, stocks) ==
    SelectSeq(stocks, LAMBDA stock : stock.ticker # trade.ticker)

execute_trade_buy(trade, stocks, current_date, market) ==
    IF Held(trade.ticker, stocks) THEN stocks
    ELSE LET price == IF HasOwnPrice(trade) THEN trade.price ELSE market
         IN  IF price = NoPrice THEN stocks
             ELSE Append(stocks, new_stock(trade.ticker, shares_for(trade.value, price),
                                           price, current_date))

execute_trade_trim(trade, stocks, current_date, market) ==
    IF ~Held(trade.ticker, stocks) THEN stocks
    ELSE LET n == IndexOf(trade.ticker, stocks)
             price == IF current_date \in DOMAIN stocks[n].prices
                      THEN stocks[n].prices[current_date] ELSE market
             new_shares == stocks[n].shares - shares_for(trade.value, price)
         IN  IF price = NoPrice \/ new_shares < 0 THEN stocks
             ELSE [stocks EXCEPT ![n].shares = new_shares,
                                 ![n].current_value = position_value(new_shares, price)]

execute_trade_add_to_existing(trade, stocks, current_date, market) ==
    IF ~Held(trade.ticker, stocks) THEN execute_trade_buy(trade, stocks, current_date, market)
    ELSE LET n == IndexOf(trade.ticker, stocks)
             price == IF HasOwnPrice(trade) THEN trade.price
                      ELSE IF current_date \in DOMAIN stocks[n].prices
                           THEN stocks[n].prices[current_date] ELSE market
             new_shares == stocks[n].shares + shares_for(trade.value, price)
         IN  IF price = NoPrice THEN stocks
             ELSE [stocks EXCEPT ![n].shares = new_shares,
                                 ![n].current_value = position_value(new_shares, price),
                                 ![n].prices = Put(@, current_date, price)]

\* trade["ticker"], trade["value"]: a KeyError when the trade lacks the key;
\* a division by a stored price of zero
TradeRaises(trade, stocks, current_date) ==
    LET action == IF "action" \in DOMAIN trade THEN trade.action ELSE ""
    IN  /\ action \in {"exit", "buy", "trim", "add_to_existing"}
        /\ \/ "ticker" \notin DOMAIN trade
           \/ action # "exit" /\ "value" \notin DOMAIN trade
           \/ /\ action \in {"trim", "add_to_existing"}
              /\ Held(trade.ticker, stocks)
              /\ ~(action = "add_to_existing" /\ HasOwnPrice(trade))
              /\ current_date \in DOMAIN stocks[IndexOf(trade.ticker, stocks)].prices
              /\ stocks[IndexOf(trade.ticker, stocks)].prices[current_date] = 0

\* One pass of the loop of execute_rebalance (lines 341-356)
execute_trade(trade, stocks, current_date, market) ==
    LET action == IF "action" \in DOMAIN trade THEN trade.action ELSE ""
    IN  CASE action = "exit" -> execute_trade_exit(trade, stocks)
          [] action = "buy" -> execute_trade_buy(trade, stocks, current_date, market)
          [] action = "trim" -> execute_trade_trim(trade, stocks, current_date, market)
          [] action = "add_to_existing" ->
                 execute_trade_add_to_existing(trade, stocks, current_date, market)
          [] OTHER -> stocks

\* The loop: the holdings after the trades, or the exception of a trade
RECURSIVE execute_trades(_, _, _, _)
execute_trades(trades, stocks, current_date, market) ==
    IF trades = <<>> THEN [raised |-> FALSE, stocks |-> stocks]
    ELSE IF TradeRaises(Head(trades), stocks, current_date)
         THEN [raised |-> TRUE, stocks |-> stocks]
         ELSE execute_trades(Tail(trades),
                             execute_trade(Head(trades), stocks, current_date, market),
                             current_date, market)

validate_portfolio_any(doc) == TRUE

\* lines 385-421
validate_portfolio(doc) ==
    LET stocks == doc.stocks
        position_count == Len(stocks)
        total_value == SumValues(stocks)
    IN  /\ ~(position_count < MIN_POSITIONS \/ position_count > MAX_POSITIONS)
        /\ \A n \in 1..position_count :
               /\ ~(total_value > 0
                      /\ 100 * stocks[n].current_value > MAX_POSITION_PCT * total_value)
               /\ ~(stocks[n].current_value < 100 * MIN_POSITION_VALUE)

\* What the engine holds in memory, and the files only the engine writes
engine_memory == <<config, fetched, ghost, timing, response, pc, error, master_json,
                   new_date, i, b, updated_stocks, updated_master, price_report, calls>>
beside_rebalancer == <<temp_file, archive, legacy, engine_memory, retrying, uploading,
                       newsletter>>

\* run() returns
RebalancerEnds(success) ==
    /\ rb_pc' = "ended"
    /\ rb_result' = IF success THEN "success" ELSE "failure"

\* python automated_rebalance.py --week N [--dry-run], with the decision
\* file of that week on disk or not
StartRebalance(dry, summary) ==
    /\ rb_pc = "idle"
    /\ pc = "idle"
    /\ rb_pc' = "load"
    /\ dry_run' = dry
    /\ decision' = summary
    /\ rb_pre' = master_file
    /\ UNCHANGED <<master_file, master_data, backups, rb_temp, rb_result, beside_rebalancer>>

\* Step 1: load_data
LoadData ==
    /\ rb_pc = "load"
    /\ IF IsDoc(master_file) /\ decision # None
       THEN /\ master_data' = master_file
            /\ rb_pc' = "decide"
            /\ UNCHANGED rb_result
       ELSE /\ RebalancerEnds(FALSE)
            /\ UNCHANGED master_data
    /\ UNCHANGED <<master_file, dry_run, decision, backups, rb_temp, rb_pre, beside_rebalancer>>

\* lines 94-126
validate_decision(summary) ==
    /\ "decision" \in DOMAIN summary
    /\ summary.decision = "REBALANCE"
    /\ "trades_executed" \in DOMAIN summary
    /\ summary.trades_executed # <<>>

\* Step 2: validate_decision; "Not an error - just HOLD decision"
ValidateDecision ==
    /\ rb_pc = "decide"
    /\ IF validate_decision(decision)
       THEN /\ rb_pc' = IF dry_run THEN "execute" ELSE "backup"
            /\ UNCHANGED rb_result
       ELSE RebalancerEnds(TRUE)
    /\ UNCHANGED <<master_file, dry_run, master_data, decision, backups, rb_temp, rb_pre,
                   beside_rebalancer>>

\* Step 3: create_backup, in a run that is not a dry run
CreateBackup(ok) ==
    /\ rb_pc = "backup"
    /\ IF ok
       THEN /\ backups' = Append(backups, master_file)
            /\ rb_pc' = "execute"
            /\ UNCHANGED rb_result
       ELSE /\ RebalancerEnds(FALSE)
            /\ UNCHANGED backups
    /\ UNCHANGED <<master_file, dry_run, master_data, decision, rb_temp, rb_pre,
                   beside_rebalancer>>

\* Step 4: execute_rebalance; `market` is what fetch_current_price returns
\* in this run.  (After an exception self.master_data may hold positions the
\* trades before it changed; the process exits without reading it again.)
ExecuteRebalance(market) ==
    /\ rb_pc = "execute"
    /\ LET done == execute_trades(decision.trades_executed, master_data.stocks,
                                  master_data.meta.current_date, market)
       IN  IF done.raised
           THEN /\ RebalancerEnds(FALSE)
                /\ UNCHANGED master_data
           ELSE /\ master_data' =
                       [master_data EXCEPT
                           !.stocks = done.stocks,
                           !.portfolio_totals.current_value = SumValues(done.stocks)]
                /\ rb_pc' = "validate"
                /\ UNCHANGED rb_result
    /\ UNCHANGED <<master_file, dry_run, decision, backups, rb_temp, rb_pre, beside_rebalancer>>

\* Step 5: validate_portfolio; "NOT saving changes"
ValidatePortfolio ==
    /\ rb_pc = "validate"
    /\ IF validate_portfolio(master_data)
       THEN /\ rb_pc' = "save"
            /\ UNCHANGED rb_result
       ELSE RebalancerEnds(FALSE)
    /\ UNCHANGED <<master_file, dry_run, master_data, decision, backups, rb_temp, rb_pre,
                   beside_rebalancer>>

save_in_dry_run(dry) == FALSE

\* if self.dry_run: return True
skips_save(dry) == dry

\* Step 6: save_master_json, up to the end of the write of master.json.tmp
WriteTemp(ok) ==
    /\ rb_pc = "save"
    /\ IF skips_save(dry_run)
       THEN /\ RebalancerEnds(TRUE)
            /\ UNCHANGED rb_temp
       ELSE IF ok
            THEN /\ rb_temp' = master_data
                 /\ rb_pc' = "replace"
                 /\ UNCHANGED rb_result
            ELSE /\ rb_temp' = Partial
                 /\ RebalancerEnds(FALSE)
    /\ UNCHANGED <<master_file, dry_run, master_data, decision, backups, rb_pre,
                   beside_rebalancer>>

\* tmp_path.replace(MASTER_JSON_PATH)
ReplaceFile(ok) ==
    /\ rb_pc = "replace"
    /\ IF ok
       THEN /\ master_file' = rb_temp
            /\ rb_temp' = Absent
            /\ RebalancerEnds(TRUE)
       ELSE /\ RebalancerEnds(FALSE)
            /\ UNCHANGED <<master_file, rb_temp>>
    /\ UNCHANGED <<dry_run, master_data, decision, backups, rb_pre, beside_rebalancer>>

\* ------------------------------------------------------------------ execute_rebalance.py
\* update_master_json(master, exits, entries)
update_master_json(master, exits, entries) ==
    LET current_date == master.meta.current_date
        kept == SelectSeq(master.stocks, LAMBDA stock : stock.ticker \notin exits)
        stocks == kept \o [n \in 1..Len(entries) |->
                              new_stock(entries[n].ticker, entries[n].shares,
                                        entries[n].entry_price, current_date)]
    IN  [master EXCEPT !.stocks = stocks,
                       !.portfolio_totals.current_value = SumValues(stocks)]

\* main(): the operator names positions to exit and positions to enter and
\* confirms; a backup is written, then master.json is written in place
ManualRebalance(exits, entries, how) ==
    /\ pc = "idle"
    /\ rb_pc = "idle"
    /\ backups = <<>>
    /\ IsDoc(master_file)
    /\ exits # {} \/ entries # <<>>
    /\ backups' = Append(backups, master_file)
    /\ master_file' = Written(master_file, update_master_json(master_file, exits, entries), how)
    /\ UNCHANGED <<rb_pc, dry_run, master_data, decision, rb_temp, rb_result, rb_pre,
                   beside_rebalancer>>

\* ------------------------------------------------------------------ initial states
\* No call of a decorated function has been made
RetryIdle ==
    /\ retry_pc = "idle"
    /\ attempt = 0
    /\ delay = initial_delay
    /\ last_exception = None
    /\ invoked = <<>>
    /\ sleeps = <<>>

\* automated_rebalance.py has not been started
RebalancerIdle ==
    /\ rb_pc = "idle"
    /\ dry_run = FALSE
    /\ master_data = None
    /\ decision = None
    /\ backups = <<>>
    /\ rb_temp = Absent
    /\ rb_result = "none"
    /\ rb_pre = None

\* No call of a function decorated in upload_newsletter_to_blob.py has been made
UploadIdle ==
    /\ up_pc = "idle"
    /\ up_attempt = 0
    /\ up_delay = initial_delay
    /\ up_last_exception = None
    /\ up_invoked = <<>>
    /\ up_sleeps = <<>>

\* The newsletter job has not been triggered
JobIdle ==
    /\ job_pc = "idle"
    /\ subscribers = <<>>
    /\ html_body = None
    /\ bulk_sends = <<>>
    /\ job_result = None

\* A process that has not started
Fresh ==
    /\ pc = "idle"
    /\ error = "none"
    /\ eval_date = NoDate
    /\ week_number = 0
    /\ master_json = None
    /\ new_date = NoDate
    /\ i = 0
    /\ b = 0
    /\ price_data = EmptyMap
    /\ price_sources = EmptyMap
    /\ bench_data = EmptyMap
    /\ bench_sources = EmptyMap
    /\ updated_stocks = <<>>
    /\ updated_master = None
    /\ price_report = None
    /\ calls = <<>>
    /\ runs = 0
    /\ clock = StartTime
    /\ last_finnhub_call = NeverCalled
    /\ response = None
    /\ twin = None
    /\ RebalancerIdle
    /\ UploadIdle
    /\ JobIdle

\* The files at inception: the seeded master.json, nothing else
AtInception ==
    /\ master_file = SeedMaster
    /\ archive = [d \in Dates |-> Absent]
    /\ legacy = [w \in Weeks |-> Absent]
    /\ today = InceptionDate

\* The files after the first weekly run (of day 2, every close 180.000)
WeekAfter(doc) ==
    UpdatedMaster(doc,
                  [n \in 1..Len(doc.stocks) |->
                      UpdatedStock(doc.stocks[n], 180000, InceptionDate,
                                   InceptionDate, InceptionDate + 1)],
                  [k \in {"sp500", "bitcoin"} |-> [close |-> 180000, source |-> "any"]],
                  InceptionDate + 1)

WeekOne == WeekAfter(SeedMaster)

AfterWeekOne ==
    /\ master_file = WeekOne
    /\ archive = [d \in Dates |-> IF d = InceptionDate + 1 THEN WeekOne ELSE Absent]
    /\ legacy = [w \in Weeks |-> IF w = 1 THEN WeekOne ELSE Absent]
    /\ today = InceptionDate + 1

\* One run starts at inception or a week later, with or without a temporary
\* file left behind by a killed run, with any set of optional API keys.
Init ==
    /\ Fresh
    /\ AtInception \/ AfterWeekOne
    /\ temp_file \in {Absent, Partial}
    /\ finnhub_key \in BOOLEAN
    /\ marketstack_key \in BOOLEAN
    /\ pre_master = master_file
    /\ pre_archive = archive
    /\ RetryIdle

\* ------------------------------------------------------------------ specifications
\* One run of the script, with everything that can go wrong in it: any
\* provider may have no quote, any file operation may fail, the process may
\* be killed at any step.  Requests are answered at once.
Next ==
    \/ \E override \in Dates \cup {NoDate} : pc = "idle" /\ StartRun(override)
    \/ \E day \in Dates : GenerateStart(day)
    \/ \E resp \in Responses, took \in Instant : FetchAlphaVantage(resp, took)
    \/ \E resp \in Responses, took \in Instant : RetryAlphaVantage(resp, took)
    \/ \E resp \in Responses, took \in Instant : FetchFinnhub(resp, took)
    \/ \E resp \in Responses, took \in Instant : FetchMarketstack(resp, took)
    \/ BuildStocks
    \/ \E resp \in Responses, took \in Instant : FetchIndex(resp, took)
    \/ \E resp \in Responses, took \in Instant : FetchCrypto(resp, took)
    \/ \E resp \in Responses, took \in Instant : FetchCryptoFinnhub(resp, took)
    \/ Compute
    \/ \E ok \in BOOLEAN : OpenTemp(ok)
    \/ \E ok \in BOOLEAN : DumpTemp(ok)
    \/ \E ok \in BOOLEAN : ReplaceMaster(ok)
    \/ \E how \in WriteOutcomes : WriteArchive(how)
    \/ \E how \in WriteOutcomes : WriteLegacy(how)
    \/ Commit
    \/ \E ok \in BOOLEAN : Pipeline(ok)
    \/ Kill

Spec == Init /\ [][Next]_vars

\* The weekly schedule: up to MaxRuns runs, one after the other, each with
\* any evaluation date, in an environment where nothing fails (the first
\* provider of every chain answers and every file operation succeeds).  What
\* a run writes depends on the closes and on the date, not on which provider
\* supplied a close, so the documents reached are those of any schedule of
\* runs that got their quotes.
IndexCloses == {[status |-> "ok", price |-> 180000]}
CryptoCloses == {[status |-> "ok", price |-> 198000]}
Closes == {r \in Responses : r.status = "ok"}

InitWeekly ==
    /\ Fresh
    /\ AtInception
    /\ temp_file = Absent
    /\ finnhub_key = TRUE
    /\ marketstack_key = TRUE
    /\ pre_master = master_file
    /\ pre_archive = archive
    /\ RetryIdle

NextWeekly ==
    \/ \E override \in Dates \cup {NoDate} : runs < MaxRuns /\ StartRun(override)
    \/ \E day \in Dates : GenerateStart(day)
    \/ \E resp \in Closes, took \in Instant : FetchAlphaVantage(resp, took)
    \/ BuildStocks
    \/ \E resp \in IndexCloses, took \in Instant : FetchIndex(resp, took)
    \/ \E resp \in CryptoCloses, took \in Instant : FetchCrypto(resp, took)
    \/ Compute
    \/ OpenTemp(TRUE)
    \/ DumpTemp(TRUE)
    \/ ReplaceMaster(TRUE)
    \/ WriteArchive("ok")
    \/ WriteLegacy("ok")
    \/ Commit
    \/ Pipeline(TRUE)

SpecWeekly == InitWeekly /\ [][NextWeekly]_vars

\* The weekly schedule continued from the files the first weekly run left
InitLater ==
    /\ Fresh
    /\ AfterWeekOne
    /\ temp_file = Absent
    /\ finnhub_key = TRUE
    /\ marketstack_key = TRUE
    /\ pre_master = master_file
    /\ pre_archive = archive
    /\ RetryIdle

SpecLater == InitLater /\ [][NextWeekly]_vars

\* One run of the script as the clock sees it: started at inception with
\* both optional keys, any provider may have no quote or fail, a request
\* takes any of Latencies seconds, and every file operation succeeds.
FetchResponses == {r \in Responses : r.status = "ok" => r.price = 180000}

InitFetch ==
    /\ Fresh
    /\ AtInception
    /\ temp_file = Absent
    /\ finnhub_key = TRUE
    /\ marketstack_key = TRUE
    /\ pre_master = master_file
    /\ pre_archive = archive
    /\ RetryIdle

NextFetch ==
    \/ pc = "idle" /\ StartRun(NoDate)
    \/ \E day \in Dates : GenerateStart(day)
    \/ \E resp \in FetchResponses, took \in Latencies : FetchAlphaVantage(resp, took)
    \/ \E resp \in FetchResponses, took \in Latencies : RetryAlphaVantage(resp, took)
    \/ \E resp \in FetchResponses, took \in Latencies : FetchFinnhub(resp, took)
    \/ \E resp \in FetchResponses, took \in Latencies : FetchMarketstack(resp, took)
    \/ BuildStocks
    \/ \E resp \in FetchResponses, took \in Latencies : FetchIndex(resp, took)
    \/ \E resp \in FetchResponses, took \in Latencies : FetchCrypto(resp, took)
    \/ \E resp \in FetchResponses, took \in Latencies : FetchCryptoFinnhub(resp, took)
    \/ Compute
    \/ OpenTemp(TRUE)
    \/ DumpTemp(TRUE)
    \/ ReplaceMaster(TRUE)
    \/ WriteArchive("ok")
    \/ WriteLegacy("ok")
    \/ Commit
    \/ Pipeline(TRUE)

SpecFetch == InitFetch /\ [][NextFetch]_vars

\* Calls of a function decorated with retry_with_backoff; the engine is not
\* running.
NextRetry ==
    \/ CallWrapper /\ UNCHANGED <<engine, rebalancing, uploading, newsletter>>
    \/ \E outcome \in Exceptions \cup {Returned} :
           Invoke(outcome) /\ UNCHANGED <<engine, rebalancing, uploading, newsletter>>

SpecRetry == InitFetch /\ [][NextRetry]_vars

\* One run of the script on whatever a provider may put in a body: a price
\* with fractions of a cent, zero, a negative number, or no price field at
\* all.  Both optional keys are set and every file operation succeeds.
AnyPrices == {-1000, 0, 180051, 198000}

Answers ==
    {[status |-> "no price"]} \cup {[status |-> "ok", price |-> p] : p \in AnyPrices}

\* Alpha Vantage has no exchange rate, or the one of 198.000
CryptoAnswers == {[status |-> "unavailable"], [status |-> "ok", price |-> 198000]}

InitRecompute ==
    /\ Fresh
    /\ AtInception \/ AfterWeekOne
    /\ temp_file = Absent
    /\ finnhub_key = TRUE
    /\ marketstack_key = TRUE
    /\ pre_master = master_file
    /\ pre_archive = archive
    /\ RetryIdle

NextRecompute ==
    \/ \E override \in Dates \cup {NoDate} : pc = "idle" /\ StartRun(override)
    \/ \E day \in Dates : GenerateStart(day)
    \/ \E resp \in Answers, took \in Instant : FetchAlphaVantage(resp, took)
    \/ BuildStocks
    \/ \E resp \in Answers, took \in Instant : FetchIndex(resp, took)
    \/ \E resp \in CryptoAnswers, took \in Instant : FetchCrypto(resp, took)
    \/ \E resp \in Answers, took \in Instant : FetchCryptoFinnhub(resp, took)
    \/ Compute
    \/ OpenTemp(TRUE)
    \/ DumpTemp(TRUE)
    \/ ReplaceMaster(TRUE)
    \/ WriteArchive("ok")
    \/ WriteLegacy("ok")
    \/ Commit
    \/ Pipeline(TRUE)

SpecRecompute == InitRecompute /\ [][NextRecompute]_vars

\* The same week computed twice: after a run, master.json is put back as the
\* run found it (the operator restores it), and the script is run again.  The
\* first provider of a chain answers, save that Alpha Vantage may have no
\* exchange rate; every file operation succeeds.
Answered(requests) ==
    [n \in 1..Len(requests) |->
        [provider |-> requests[n].provider, symbol |-> requests[n].symbol,
         quote |-> requests[n].quote]]

Restore ==
    /\ pc = "done"
    /\ twin = None
    /\ twin' = [from |-> pre_master, date |-> new_date, eval_date |-> eval_date,
                answers |-> Answered(calls), result |-> master_file]
    /\ master_file' = pre_master
    /\ pc' = "idle"
    /\ UNCHANGED <<temp_file, archive, legacy, config, fetched, runs, pre_master, pre_archive,
                   offline, error, master_json, new_date, i, b, updated_stocks,
                   updated_master, price_report, calls>>

NextTwin ==
    \/ \E override \in Dates \cup {NoDate} : pc = "idle" /\ StartRun(override)
    \/ \E day \in Dates : GenerateStart(day)
    \/ \E resp \in Closes, took \in Instant : FetchAlphaVantage(resp, took)
    \/ BuildStocks
    \/ \E resp \in IndexCloses, took \in Instant : FetchIndex(resp, took)
    \/ \E resp \in CryptoAnswers, took \in Instant : FetchCrypto(resp, took)
    \/ \E resp \in CryptoCloses, took \in Instant : FetchCryptoFinnhub(resp, took)
    \/ Compute
    \/ OpenTemp(TRUE)
    \/ DumpTemp(TRUE)
    \/ ReplaceMaster(TRUE)
    \/ WriteArchive("ok")
    \/ WriteLegacy("ok")
    \/ Commit
    \/ Pipeline(TRUE)
    \/ Restore

SpecTwin == InitWeekly /\ [][NextTwin]_vars

\* A rebalance and the weekly run after it: a portfolio of six positions, at
\* inception or a week later; the operator may rebalance by hand, the
\* automated rebalancer may run (with any decision of Decisions, dry or not,
\* any of its file operations failing), and then the weekly script runs once,
\* every close reported as 198.000 (the index as 180.000) and every file
\* operation succeeding.
SixStocks == [n \in 1..MIN_POSITIONS |-> SeedStock(<<"T1", "T2", "T3", "T4", "T5", "T6">>[n], 10)]

SixAtInception ==
    /\ master_file = Inception(SixStocks)
    /\ archive = [d \in Dates |-> Absent]
    /\ legacy = [w \in Weeks |-> Absent]
    /\ today = InceptionDate

SixAfterWeekOne ==
    /\ master_file = WeekAfter(Inception(SixStocks))
    /\ archive = [d \in Dates |-> IF d = InceptionDate + 1
                                  THEN WeekAfter(Inception(SixStocks)) ELSE Absent]
    /\ legacy = [w \in Weeks |-> IF w = 1 THEN WeekAfter(Inception(SixStocks)) ELSE Absent]
    /\ today = InceptionDate + 1

\* Trades of a decision_summary.json; values and prices in cents
Exit(ticker) == [action |-> "exit", ticker |-> ticker]
Buy(ticker, value, price) ==
    [action |-> "buy", ticker |-> ticker, value |-> value, price |-> price]
BuyAtMarket(ticker, value) == [action |-> "buy", ticker |-> ticker, value |-> value]
Trim(ticker, value) == [action |-> "trim", ticker |-> ticker, value |-> value]
AddToExisting(ticker, value) ==
    [action |-> "add_to_existing", ticker |-> ticker, value |-> value]

Rebalance(trades) == [decision |-> "REBALANCE", trades_executed |-> trades]

Decisions ==
    {[decision |-> "HOLD"],
     Rebalance(<<>>),
     Rebalance(<<Buy("T7", 180000, 18000)>>),
     Rebalance(<<Buy("T7", 30000, 18000)>>),
     Rebalance(<<Exit("T1")>>),
     Rebalance(<<Exit("T1"), BuyAtMarket("T7", 180000)>>),
     Rebalance(<<AddToExisting("T2", 90000)>>),
     Rebalance(<<AddToExisting("T7", 180000)>>),
     Rebalance(<<Trim("T1", 36000)>>),
     Rebalance(<<Trim("T1", 120000)>>),
     Rebalance(<<Trim("T1", 36000), [action |-> "buy", ticker |-> "T7"]>>)}

\* fetch_current_price: nothing, or 180.00
FetchedPrices == {NoPrice, 18000}

\* An entry of execute_rebalance.py: 10 shares of T7 at 180.00
Entries == {<<>>, <<[ticker |-> "T7", shares |-> 1000, entry_price |-> 18000]>>}

InitRebalance ==
    /\ Fresh
    /\ SixAtInception \/ SixAfterWeekOne
    /\ temp_file = Absent
    /\ finnhub_key = TRUE
    /\ marketstack_key = TRUE
    /\ pre_master = master_file
    /\ pre_archive = archive
    /\ RetryIdle

NextRebalance ==
    \/ \E exits \in {{}, {"T1"}}, entries \in Entries, how \in WriteOutcomes :
           ManualRebalance(exits, entries, how)
    \/ \E dry \in BOOLEAN, summary \in Decisions \cup {None} : StartRebalance(dry, summary)
    \/ LoadData
    \/ ValidateDecision
    \/ \E ok \in BOOLEAN : CreateBackup(ok)
    \/ \E price \in FetchedPrices : ExecuteRebalance(price)
    \/ ValidatePortfolio
    \/ \E ok \in BOOLEAN : WriteTemp(ok)
    \/ \E ok \in BOOLEAN : ReplaceFile(ok)
    \/ \E override \in Dates \cup {NoDate} :
           pc = "idle" /\ rb_pc \in {"idle", "ended"} /\ StartRun(override)
    \/ \E day \in Dates : GenerateStart(day)
    \/ \E resp \in CryptoCloses, took \in Instant : FetchAlphaVantage(resp, took)
    \/ BuildStocks
    \/ \E resp \in IndexCloses, took \in Instant : FetchIndex(resp, took)
    \/ \E resp \in CryptoCloses, took \in Instant : FetchCrypto(resp, took)
    \/ Compute
    \/ OpenTemp(TRUE)
    \/ DumpTemp(TRUE)
    \/ ReplaceMaster(TRUE)
    \/ WriteArchive("ok")
    \/ WriteLegacy("ok")
    \/ Commit
    \/ Pipeline(TRUE)

SpecRebalance == InitRebalance /\ [][NextRebalance]_vars

\* Calls of one function through weekly_job.py's decorator and through
\* upload_newsletter_to_blob.py's, side by side
NextUpload ==
    \/ CallBoth /\ UNCHANGED <<engine, rebalancing, newsletter>>
    \/ \E outcome \in Exceptions \cup {Returned} :
           InvokeBoth(outcome) /\ UNCHANGED <<engine, rebalancing, newsletter>>

SpecUpload == InitFetch /\ [][NextUpload]_vars

\* The newsletter job, triggered any number of times, with any list of up to
\* two subscribers, any file of up to MaxPieces pieces, and any of its calls
\* failing
NextJob ==
    \/ TriggerJob
    \/ \E list \in {<<>>, <<"a">>, <<"a", "b">>}, exception \in {"none", "SubscriptionError", "Exception"} :
           GetSubscribers(list, exception)
    \/ \E file \in Files, exception \in {"none", "FileNotFoundError", "IOError", "ValueError"} :
           Download(file, exception)
    \/ ValidateHtml
    \/ \E sent \in 0..Len(subscribers), exception \in {"none", "MailerError", "Exception"} :
           SendBulk(sent, exception)

SpecJob == InitFetch /\ [][NextJob]_vars

\* ================================================================== claims
Holdings == {pre_master.stocks[n].ticker : n \in 1..Len(pre_master.stocks)}
BenchSet == {BenchKeys[n] : n \in 1..Len(BenchKeys)}
Saving == {"open_temp", "dump_temp", "replace", "archive", "legacy", "commit",
           "returned", "done"}

\* C1: a run whose evaluation date equals the loaded snapshot's current_date
\* ends with the duplicate-period error, has issued no provider request, and
\* leaves master.json, the archive directory and the snapshot in memory as
\* they were.
C1_DuplicatePeriodRejected ==
    (new_date # NoDate /\ new_date = pre_master.meta.current_date)
        => /\ pc = "failed"
           /\ error = "duplicate"
           /\ calls = <<>>
           /\ master_file = pre_master
           /\ archive = pre_archive
           /\ master_json = pre_master

C1_Witness ==
    /\ pc = "failed"
    /\ error = "duplicate"
    /\ eval_date = pre_master.meta.current_date

\* C2: a run whose chain is exhausted for a symbol fails and leaves
\* master.json as it was; the run gets past the holdings only with a quote for
\* every holding and past the benchmarks only with a quote for every
\* benchmark; and whenever master.json has been replaced, every holding's and
\* every benchmark's close for the new date is the one a provider answered in
\* this run.
C2_NoPartialPricing ==
    /\ error = "no price" => (pc = "failed" /\ master_file = pre_master)
    /\ pc \in {"build", "bench", "bench_finnhub", "compute"} \cup Saving
           => \A t \in Holdings : t \in DOMAIN price_data /\ IsQuote(price_data[t])
    /\ pc \in {"compute"} \cup Saving
           => \A k \in BenchSet : k \in DOMAIN bench_data /\ IsQuote(bench_data[k])
    /\ master_file # pre_master
           => /\ \A n \in 1..Len(pre_master.stocks) :
                    LET t == pre_master.stocks[n].ticker
                    IN  /\ t \in DOMAIN price_data
                        /\ \E c \in 1..Len(calls) :
                               calls[c].symbol = t /\ calls[c].quote = price_data[t]
                        /\ master_file.stocks[n].prices[new_date]
                               = Round2(price_data[t].close)
              /\ \A k \in BenchSet :
                    /\ k \in DOMAIN bench_data
                    /\ \E c \in 1..Len(calls) :
                           calls[c].symbol = bench_symbol(k) /\ calls[c].quote = bench_data[k]
                    /\ Last(master_file.benchmarks[k].history).close
                           = Round2(bench_data[k].close)

\* one holding priced, the chain of another exhausted
C2_Witness ==
    /\ pc = "failed"
    /\ error = "no price"
    /\ DOMAIN price_data # {}
    /\ DOMAIN price_data # Holdings

\* C3: for a holding, once Alpha Vantage has answered without a quote and
\* Finnhub has answered with one, the holding's price and source are
\* Finnhub's (in price_data, in the recomputed holding and in the report), and
\* Marketstack is not asked for that symbol.
C3_SecondProviderWins ==
    \A j \in 1..Len(calls) :
        LET t == calls[j].symbol
        IN  ( /\ t \in Holdings
              /\ calls[j].provider = "Finnhub"
              /\ IsQuote(calls[j].quote)
              /\ \E h \in 1..(j - 1) :
                     /\ calls[h].symbol = t
                     /\ calls[h].provider = "Alpha Vantage"
                     /\ ~IsQuote(calls[h].quote) )
            => /\ t \in DOMAIN price_data
               /\ price_data[t] = calls[j].quote
               /\ price_sources[t] = "Finnhub"
               /\ \A k \in 1..Len(calls) :
                      calls[k].symbol = t => calls[k].provider # "Marketstack"
               /\ \A n \in 1..Len(updated_stocks) :
                      updated_stocks[n].ticker = t
                          => updated_stocks[n].prices[new_date] = Round2(calls[j].quote.close)
               /\ IsQuote(calls[j].quote) /\ price_report # None
                      => /\ price_report[t].source = "Finnhub"
                         /\ price_report[t].price = Round2(calls[j].quote.close)

C3_Witness ==
    /\ pc = "done"
    /\ marketstack_key
    /\ \E t \in DOMAIN price_report : price_report[t].source = "Finnhub"

\* C4: at every point of a run, the process killed at any step included,
\* master.json is the complete document of before the run or the complete new
\* document.
C4_MasterAlwaysComplete ==
    \/ master_file = pre_master
    \/ IsDoc(updated_master) /\ master_file = updated_master

\* killed between the write of the temporary file and the rename
C4_Witness ==
    /\ pc = "killed"
    /\ IsDoc(updated_master)
    /\ temp_file = updated_master
    /\ master_file = pre_master

\* C5: when the write of the temporary file or the rename fails, the run has
\* failed, the temporary file does not exist and master.json is the document
\* of before the run.
C5_SaveFailureLeavesPrevious ==
    error \in PersistErrors
        => /\ pc = "failed"
           /\ temp_file = Absent
           /\ master_file = pre_master

C5_Witness ==
    /\ error = "persist: replace"
    /\ pc = "failed"

\* C6: no run fails because the archive copy or the legacy copy could not be
\* written.
C6_CopyFailureNonFatal ==
    ~(pc = "failed" /\ error \in {"archive", "legacy"})

IsPrefix(old, new) == Len(old) <= Len(new) /\ SubSeq(new, 1, Len(old)) = old
OneMore(old, new) == Len(new) = Len(old) + 1 /\ IsPrefix(old, new)

\* C7: a run that has replaced master.json has added exactly one entry to
\* portfolio_history, to every benchmark's history and to normalized_chart,
\* and has left every earlier entry as it was; over any number of runs the
\* entries of the seeded snapshot stay the first ones.
C7_AppendOnly ==
    /\ pc \in {"archive", "legacy", "commit", "returned", "done"}
           => /\ OneMore(pre_master.portfolio_history, master_file.portfolio_history)
              /\ OneMore(pre_master.normalized_chart, master_file.normalized_chart)
              /\ \A k \in BenchSet : OneMore(pre_master.benchmarks[k].history,
                                             master_file.benchmarks[k].history)
    /\ IsPrefix(pre_master.portfolio_history, master_file.portfolio_history)
    /\ IsPrefix(SeedMaster.portfolio_history, master_file.portfolio_history)
    /\ IsPrefix(SeedMaster.normalized_chart, master_file.normalized_chart)
    /\ \A k \in BenchSet : IsPrefix(SeedMaster.benchmarks[k].history,
                                    master_file.benchmarks[k].history)

\* two runs on two different dates: 1 entry has become 3
C7_Witness ==
    /\ pc = "done"
    /\ runs = 2
    /\ Len(master_file.portfolio_history) = Len(SeedMaster.portfolio_history) + 2
    /\ master_file.portfolio_history[2].date # master_file.portfolio_history[3].date

DatesOf(history) == [n \in 1..Len(history) |-> history[n].date]
Distinct(seq) == \A j, k \in 1..Len(seq) : j # k => seq[j] # seq[k]
Increasing(seq) == \A j, k \in 1..Len(seq) : j < k => seq[j] < seq[k]

\* C8: no two entries of portfolio_history carry the same date.
C8_OneEntryPerDate ==
    Distinct(DatesOf(master_file.portfolio_history))

\* C9: the dates of portfolio_history, of every benchmark's history and of
\* normalized_chart increase strictly, and a run whose evaluation date is
\* earlier than the snapshot's current_date does not replace master.json.
C9_Chronological ==
    /\ Increasing(DatesOf(master_file.portfolio_history))
    /\ Increasing(DatesOf(master_file.normalized_chart))
    /\ \A k \in BenchSet : Increasing(DatesOf(master_file.benchmarks[k].history))
    /\ (new_date # NoDate /\ new_date < pre_master.meta.current_date)
           => master_file = pre_master

\* C10: every price a holding's map held before the run, it holds after it.
C10_PriceMapAppendOnly ==
    \A n \in 1..Len(pre_master.stocks) :
        \A d \in DOMAIN pre_master.stocks[n].prices :
            /\ d \in DOMAIN master_file.stocks[n].prices
            /\ master_file.stocks[n].prices[d] = pre_master.stocks[n].prices[d]

\* Every document the runs have left: master.json, the archive copies, the
\* legacy copies, and the snapshot in memory
Snapshots ==
    {d \in {master_file, master_json, updated_master} : IsDoc(d)}
        \cup {archive[d] : d \in {x \in Dates : IsDoc(archive[x])}}
        \cup {legacy[w] : w \in {x \in Weeks : IsDoc(legacy[x])}}

\* C11: in every snapshot the runs produce, meta.inception_date,
\* meta.inception_value and every benchmark's inception_reference are those of
\* the initial snapshot.
C11_InceptionWriteOnce ==
    \A doc \in Snapshots :
        /\ doc.meta.inception_date = SeedMaster.meta.inception_date
        /\ doc.meta.inception_value = SeedMaster.meta.inception_value
        /\ \A k \in BenchSet :
               doc.benchmarks[k].inception_reference
                   = SeedMaster.benchmarks[k].inception_reference

\* two snapshots later, with a benchmark close other than the inception reference
C11_Witness ==
    /\ pc = "done"
    /\ Len(master_file.portfolio_history) = Len(SeedMaster.portfolio_history) + 2
    /\ IsDoc(archive[master_file.meta.current_date])
    /\ \E k \in BenchSet :
           Last(master_file.benchmarks[k].history).close
               # master_file.benchmarks[k].inception_reference

\* C12: a run that has written its archive copy wrote it to a path at which
\* no file existed, and no archive copy ever changes or disappears.
C12_ArchiveNeverOverwritten ==
    /\ pc \in {"legacy", "commit", "returned", "done"} => pre_archive[new_date] = Absent
    /\ \A d \in Dates : IsDoc(pre_archive[d]) => archive[d] = pre_archive[d]

\* Requests j and k of this run, j before k, went to `provider`
Both(j, k, provider) ==
    /\ j < k
    /\ calls[j].provider = provider
    /\ calls[k].provider = provider

\* C13: in a run whose requests are answered at once, no provider is asked
\* twice for one symbol, and the request that follows an answer without a
\* quote for the same symbol is sent without delay, save the wait of the next
\* provider's own rate limit (Finnhub's).
C13_FailoverWithoutRepeat ==
    /\ \A j, k \in 1..Len(calls) :
           (j < k /\ calls[j].symbol = calls[k].symbol)
               => calls[j].provider # calls[k].provider
    /\ \A j \in 1..(Len(calls) - 1) :
           (calls[j].symbol = calls[j + 1].symbol /\ calls[j + 1].provider # "Finnhub")
               => /\ calls[j + 1].waited = 0
                  /\ calls[j + 1].at = calls[j].at

\* The providers of a symbol's chain, with the keys of this run
ChainOf(symbol) ==
    IF symbol = bench_symbol("sp500") THEN {"Marketstack"}
    ELSE IF symbol = bench_symbol("bitcoin")
         THEN {"Alpha Vantage"} \cup (IF finnhub_key THEN {"Finnhub"} ELSE {})
         ELSE {"Alpha Vantage"} \cup (IF finnhub_key THEN {"Finnhub"} ELSE {})
                                \cup (IF marketstack_key THEN {"Marketstack"} ELSE {})

Exhausted(symbol) ==
    \A p \in ChainOf(symbol) :
        \E c \in 1..Len(calls) :
            calls[c].symbol = symbol /\ calls[c].provider = p /\ calls[c].quote = None

\* C14: no exception of a request ends the run; when the latest request ended
\* in a transport or HTTP failure, its adapter returned no quote, and the run
\* is at the next provider of the chain, or it has failed for want of a price
\* with every provider of that symbol's chain asked in vain.
C14_TransportFailureFailsOver ==
    /\ error # "transport"
    /\ (response # None /\ response.status = "error")
           => /\ Last(calls).quote = None
              /\ pc \in {"av2", "finnhub", "marketstack", "bench_finnhub", "failed", "killed"}
              /\ pc = "failed" => (error = "no price" /\ Exhausted(Last(calls).symbol))

\* Finnhub's request for a holding failed in transport, and Marketstack is next
C14_Witness ==
    /\ response # None
    /\ response.status = "error"
    /\ Last(calls).provider = "Finnhub"
    /\ pc = "marketstack"

\* C15: any two Finnhub requests of a run (quote or crypto) are sent at least
\* finnhub_min_interval seconds apart, and a request that arrives sooner than
\* that after the previous one sleeps exactly the remaining time.
C15_FinnhubSpacing ==
    \A j, k \in 1..Len(calls) :
        Both(j, k, "Finnhub")
            => /\ calls[k].at - calls[j].at >= finnhub_min_interval
               /\ (\A m \in (j + 1)..(k - 1) : calls[m].provider # "Finnhub")
                      => \/ calls[k].waited = 0
                         \/ calls[k].at = calls[j].at + finnhub_min_interval

\* a Finnhub request that arrived 3 seconds after the previous one and slept 9
C15_Witness ==
    \E j, k \in 1..Len(calls) :
        /\ Both(j, k, "Finnhub")
        /\ calls[k].waited = 9
        /\ calls[k].at - calls[k].waited = calls[j].at + 3
        /\ calls[k].at = calls[j].at + 12

\* C16: any two Alpha Vantage requests of a run are sent at least 12 seconds
\* apart.
C16_AlphaVantageSpacing ==
    \A j, k \in 1..Len(calls) :
        Both(j, k, "Alpha Vantage") => calls[k].at - calls[j].at >= AlphaVantagePause

\* The sleeps of a call that uses every retry: initial_delay * backoff_factor^k
\* before retry k + 1
Schedule == [k \in 1..max_retries |-> initial_delay * backoff_factor ^ (k - 1)]

Retryable(e) ==
    \/ e.class \in {"Timeout", "RequestsConnectionError", "ServiceRequestError",
                    "ConnectionError"}
    \/ e.class \in {"HTTPError", "HttpResponseError"} /\ (e.status >= 500 \/ e.status = 429)

\* C18: func is invoked again after its n-th failure if and only if that
\* failure is retryable and n is at most max_retries; after a failure that is
\* not retryable the wrapper raises it, having slept only after the failures
\* before it.
C18_RetryIffRetryable ==
    \A n \in 1..Len(invoked) :
        invoked[n] # Returned
            => LET again == n < Len(invoked) \/ retry_pc = "try"
               IN  /\ again <=> (Retryable(invoked[n]) /\ n <= max_retries)
                   /\ ~Retryable(invoked[n])
                          => /\ retry_pc = "raised"
                             /\ last_exception = invoked[n]
                             /\ Len(sleeps) = n - 1

\* C19: a run that ends in a configuration error has sent no request.
C19_ConfigErrorBeforeNetwork ==
    error \in {"config", "master data"} => calls = <<>>

\* C20: while a run is on, the snapshot in memory is the loaded one, entire,
\* or the new one, entire; it is the loaded one until the copies are written,
\* and a run that failed in the fetch, the recompute or the save leaves it the
\* loaded one.
C20_AllOrNothingInMemory ==
    pc # "idle"
        => /\ \/ master_json = pre_master
              \/ IsDoc(updated_master) /\ master_json = updated_master
           /\ pc \in Running \ {"returned"} => master_json = pre_master
           /\ (pc = "failed" /\ error # "pipeline")
                  => /\ master_json.stocks = pre_master.stocks
                     /\ master_json.portfolio_totals = pre_master.portfolio_totals
                     /\ master_json.benchmarks = pre_master.benchmarks
                     /\ master_json.normalized_chart = pre_master.normalized_chart

\* the new snapshot was computed and the save failed
C20_Witness ==
    /\ pc = "failed"
    /\ error \in PersistErrors
    /\ IsDoc(updated_master)
    /\ updated_master # pre_master
    /\ master_json = pre_master

\* The run has replaced master.json
Replaced == {"archive", "legacy", "commit", "returned", "done"}

\* round(shares * price) for a price in cents, written in cents
WholeDollars(shares, price) == 100 * RoundDiv(shares * price, 100 * 100)

\* C21: in the snapshot a run has written, every holding's current_value is
\* round(shares * close) for the shares and the close of the new date that
\* this snapshot stores for the holding.
C21_ValueFromStoredPair ==
    pc \in Replaced
        => \A n \in 1..Len(master_file.stocks) :
               LET stock == master_file.stocks[n]
               IN  stock.current_value = WholeDollars(stock.shares, stock.prices[new_date])

Abs(x) == IF x < 0 THEN -x ELSE x

\* pct, in hundredths, is 100 * n / d rounded to 2 decimals: no number with 2
\* decimals is nearer to 100 * n / d
Nearest(pct, n, d) == 2 * Abs(pct * d - 10000 * n) <= d

\* C22: in the snapshot a run has written, every holding's weekly_pct is
\* (close / prior - 1) * 100 and its total_pct is (close / inception - 1) * 100,
\* to 2 decimals, for the close fetched in this run, the price the loaded
\* snapshot holds for its current_date and the one it holds for the inception
\* date; 10 shares with inception 150, prior 180 and close 198 get 10.00,
\* 32.00 and a current_value of 1980.
C22_PercentagesFromCloses ==
    pc \in Replaced
        => \A n \in 1..Len(pre_master.stocks) :
               LET old == pre_master.stocks[n]
                   new == master_file.stocks[n]
                   close == price_data[old.ticker].close
                   prior == 10 * old.prices[pre_master.meta.current_date]
                   inception == 10 * old.prices[pre_master.meta.inception_date]
               IN  /\ Nearest(new.weekly_pct, close - prior, prior)
                   /\ Nearest(new.total_pct, close - inception, inception)
                   /\ (/\ old.shares = 1000
                       /\ inception = 150000
                       /\ prior = 180000
                       /\ close = 198000)
                          => /\ new.weekly_pct = 1000
                             /\ new.total_pct = 3200
                             /\ new.current_value = 198000

\* the scenario: inception 150, prior 180, 10 shares, new close 198
C22_Witness ==
    /\ pc = "done"
    /\ pre_master = WeekOne
    /\ pre_master.stocks[1].shares = 1000
    /\ pre_master.stocks[1].prices[InceptionDate] = 15000
    /\ pre_master.stocks[1].prices[pre_master.meta.current_date] = 18000
    /\ price_data[pre_master.stocks[1].ticker].close = 198000
    /\ master_file.stocks[1].weekly_pct = 1000
    /\ master_file.stocks[1].total_pct = 3200
    /\ master_file.stocks[1].current_value = 198000

\* C23: the normalized_chart entry a run has appended carries the new
\* portfolio value and the new benchmark closes, with genai_norm
\* 100 * value / inception_value and spx_norm, btc_norm 100 * close / the
\* benchmark's own inception_reference, to 2 decimals; and in every snapshot
\* the first entry of the chart is 100 in each of the three series.
C23_BaseHundred ==
    /\ \A doc \in Snapshots :
           /\ doc.normalized_chart[1].genai_norm = 10000
           /\ doc.normalized_chart[1].spx_norm = 10000
           /\ doc.normalized_chart[1].btc_norm = 10000
    /\ pc \in Replaced
           => LET entry == Last(master_file.normalized_chart)
                  sp500 == master_file.benchmarks.sp500
                  bitcoin == master_file.benchmarks.bitcoin
              IN  /\ entry.portfolio_value = master_file.portfolio_totals.current_value
                  /\ entry.spx_close = Last(sp500.history).close
                  /\ entry.btc_close = Last(bitcoin.history).close
                  /\ entry.portfolio_value % 100 = 0
                  /\ master_file.meta.inception_value % 100 = 0
                  /\ Nearest(entry.genai_norm, entry.portfolio_value \div 100,
                             master_file.meta.inception_value \div 100)
                  /\ Nearest(entry.spx_norm, entry.spx_close, sp500.inception_reference)
                  /\ Nearest(entry.btc_norm, entry.btc_close, bitcoin.inception_reference)

\* the third entry of a chart whose series have left 100 by different amounts
C23_Witness ==
    /\ pc = "done"
    /\ Len(master_file.normalized_chart) = Len(SeedMaster.normalized_chart) + 2
    /\ Last(master_file.normalized_chart).spx_norm = 12000
    /\ Last(master_file.normalized_chart).btc_norm = 13200
    /\ Last(master_file.normalized_chart).genai_norm \notin {10000, 12000, 13200}

\* C25: every quote an adapter returned has a close above zero; a request
\* whose body has no price, or a price of zero or below, got no quote from its
\* adapter; and in the snapshot a run has written, the close of the new date
\* of every holding and of every benchmark is above zero.
C25_NoNonPositiveClose ==
    /\ \A c \in 1..Len(calls) : IsQuote(calls[c].quote) => calls[c].quote.close > 0
    /\ (response # None /\ (response.status = "no price"
                               \/ (response.status = "ok" /\ response.price <= 0)))
           => Last(calls).quote = None
    /\ pc \in Replaced
           => /\ \A n \in 1..Len(master_file.stocks) :
                     master_file.stocks[n].prices[new_date] > 0
              /\ \A k \in BenchSet : Last(master_file.benchmarks[k].history).close > 0

\* The values of the holdings of a document, added up from the last one
RECURSIVE ValueOfFirst(_, _)
ValueOfFirst(doc, n) ==
    IF n = 0 THEN 0 ELSE doc.stocks[n].current_value + ValueOfFirst(doc, n - 1)

\* C30: master.json describes one period: meta.current_date is the date of
\* the last entry of portfolio_history, of every benchmark's history and of
\* normalized_chart; these lists have grown by the same number of entries
\* since inception; and portfolio_totals.current_value is the sum of the
\* holdings' current_value, the value of the last portfolio_history entry and
\* the portfolio_value of the last normalized_chart entry.
C30_OnePeriod ==
    LET doc == master_file
        grown == Len(doc.portfolio_history) - Len(SeedMaster.portfolio_history)
    IN  /\ Last(doc.portfolio_history).date = doc.meta.current_date
        /\ Last(doc.normalized_chart).date = doc.meta.current_date
        /\ \A k \in BenchSet : Last(doc.benchmarks[k].history).date = doc.meta.current_date
        /\ Len(doc.normalized_chart) - Len(SeedMaster.normalized_chart) = grown
        /\ \A k \in BenchSet :
               Len(doc.benchmarks[k].history) - Len(SeedMaster.benchmarks[k].history) = grown
        /\ doc.portfolio_totals.current_value = ValueOfFirst(doc, Len(doc.stocks))
        /\ doc.portfolio_totals.current_value = Last(doc.portfolio_history).value
        /\ doc.portfolio_totals.current_value = Last(doc.normalized_chart).portfolio_value

\* two runs later, with holdings that moved apart
C30_Witness ==
    /\ pc = "done"
    /\ runs = 2
    /\ Len(master_file.portfolio_history) = Len(SeedMaster.portfolio_history) + 2
    /\ master_file.meta.current_date = new_date
    /\ master_file.stocks[1].weekly_pct # master_file.stocks[2].weekly_pct

\* The symbols of a run in the order the loaded snapshot gives: its holdings,
\* then the benchmarks
SymbolOrder ==
    [n \in 1..Len(pre_master.stocks) |-> pre_master.stocks[n].ticker]
        \o [n \in 1..Len(BenchKeys) |-> bench_symbol(BenchKeys[n])]

Position(symbol) == CHOOSE n \in 1..Len(SymbolOrder) : SymbolOrder[n] = symbol

\* C24: the requests of a run go through the symbols in one order, the
\* holdings as the loaded snapshot lists them and then the benchmarks, one
\* symbol after the other with none left out; and a run that started from the
\* same snapshot as an earlier one, for the same date, and got the same
\* answers to the same requests, has written the same master.json.
C24_FixedOrderSameResult ==
    /\ \A c \in 1..Len(calls) : \E n \in 1..Len(SymbolOrder) : SymbolOrder[n] = calls[c].symbol
    /\ calls # <<>> => Position(calls[1].symbol) = 1
    /\ \A c \in 1..(Len(calls) - 1) :
           Position(calls[c + 1].symbol) - Position(calls[c].symbol) \in {0, 1}
    /\ pc \in Replaced => Position(Last(calls).symbol) = Len(SymbolOrder)
    /\ ( /\ twin # None
          /\ pc \in Replaced
          /\ pre_master = twin.from
          /\ new_date = twin.date
          /\ Answered(calls) = twin.answers )
           => master_file = twin.result

\* the second of two such runs, one dated by --eval-date and one by the clock
C24_Witness ==
    /\ twin # None
    /\ pc = "done"
    /\ pre_master = twin.from
    /\ new_date = twin.date
    /\ Answered(calls) = twin.answers
    /\ eval_date # twin.eval_date
    /\ Len(calls) > Len(SymbolOrder)
    /\ master_file = twin.result

\* The positions of the loaded snapshot that a rebalance added
Added ==
    {n \in 1..Len(pre_master.stocks) :
        \A k \in 1..Len(SixStocks) : pre_master.stocks[n].ticker # SixStocks[k].ticker}

\* C26: a weekly run for a later date that loaded a snapshot with a position
\* added by a rebalance, and got a quote for every symbol, does not fail; and
\* the snapshot it writes holds, for the added position, the price of the new
\* date and the weekly_pct and total_pct against the price it was bought at.
C26_NewPositionTracked ==
    ( /\ runs > 0
      /\ IsDoc(pre_master)
      /\ Added # {}
      /\ new_date > pre_master.meta.current_date )
        => /\ pc # "failed"
           /\ pc \in Replaced
                  => \A n \in Added :
                         LET old == pre_master.stocks[n]
                             new == master_file.stocks[n]
                             close == price_data[old.ticker].close
                             bought == 10 * old.prices[pre_master.meta.current_date]
                         IN  /\ new.ticker = old.ticker
                             /\ new.prices[new_date] = Round2(close)
                             /\ Nearest(new.weekly_pct, close - bought, bought)
                             /\ Nearest(new.total_pct, close - bought, bought)

\* The constraints of a portfolio: 6 to 10 positions, none above 20 % of the
\* total, none below 500 dollars
Constraints(doc) ==
    /\ Len(doc.stocks) \in 6..10
    /\ \A n \in 1..Len(doc.stocks) :
           /\ 5 * doc.stocks[n].current_value <= ValueOfFirst(doc, Len(doc.stocks))
           /\ doc.stocks[n].current_value >= 50000

\* C27: from the start of the automated rebalancer until the next program
\* runs, master.json differs from what the rebalancer found only if the run is
\* not a dry run, its last backup is a copy of what it found, it returned
\* success, and master.json is the portfolio after the trades, which satisfies
\* every constraint; in a dry run and in a run that failed (no backup, a trade
\* that raised, a constraint violated, a failed save) master.json is what the
\* rebalancer found.
C27_GuardedReplace ==
    (pc = "idle" /\ rb_pc # "idle")
        => /\ master_file # rb_pre
                  => /\ ~dry_run
                     /\ backups # <<>>
                     /\ Last(backups) = rb_pre
                     /\ rb_result = "success"
                     /\ master_file = master_data
                     /\ Constraints(master_file)
           /\ (dry_run \/ rb_result = "failure") => master_file = rb_pre

\* a seventh position bought and saved
C27_Witness ==
    /\ pc = "idle"
    /\ rb_pc = "ended"
    /\ rb_result = "success"
    /\ ~dry_run
    /\ master_file # rb_pre
    /\ Len(master_file.stocks) = Len(rb_pre.stocks) + 1
    /\ Last(backups) = rb_pre

\* C28: a call through weekly_job.py's decorator and a call through
\* upload_newsletter_to_blob.py's, with the same parameters and the function
\* ending the same way at each invocation, agree once both are over: the same
\* invocations, the same sleeps, and both returned or both raised the same
\* exception.
C28_WrappersAgree ==
    (retry_pc \in {"returned", "raised"} /\ up_pc \in {"returned", "raised"})
        => /\ up_invoked = invoked
           /\ up_sleeps = sleeps
           /\ up_pc = retry_pc
           /\ up_pc = "raised" => up_last_exception = last_exception

\* The file passes the checks of the job: not blank, with an opening html tag
\* and an opening body tag in any case
Presentable(html) ==
    /\ \E n \in 1..Len(html) : html[n] # " "
    /\ \E n \in 1..Len(html) : html[n] \in {"<html", "<HTML"}
    /\ \E n \in 1..Len(html) : html[n] \in {"<body", "<BODY"}

\* C29: in a run of the newsletter job the bulk send is called at most once,
\* with the non-empty list of subscribers obtained and the downloaded file,
\* which passes the checks; a run that has returned has returned a result,
\* with sent = 0 when the bulk send was not called.
C29_SendOnlyWhenReady ==
    /\ Len(bulk_sends) <= 1
    /\ bulk_sends # <<>>
           => /\ subscribers # <<>>
              /\ bulk_sends[1].recipients = subscribers
              /\ html_body # None
              /\ bulk_sends[1].html_body = html_body
              /\ Presentable(html_body)
    /\ job_pc = "returned"
           => /\ job_result # None
              /\ job_result.status \in {"completed", "error"}
              /\ bulk_sends = <<>> => job_result.sent = 0

\* sent to two subscribers, the file's html tag in upper case
C29_Witness ==
    /\ job_pc = "returned"
    /\ Len(bulk_sends) = 1
    /\ Len(bulk_sends[1].recipients) = 2
    /\ \E n \in 1..Len(html_body) : html_body[n] = "<HTML"
    /\ job_result.status = "completed"
    /\ job_result.sent = 2

====
